---- MODULE Spec2Model ----
(***************************************************************************)
(* Model of the ACME configuration manager API: the parameter documents    *)
(* held in Firestore and the admin handlers that mutate them under the     *)
(* version-based conflict protocol (src/src/controllers/                   *)
(* configController.ts, src/src/utils/configHelpers.ts,                    *)
(* src/src/utils/parameterUtils.ts), and the read side: the Redis cache    *)
(* service (src/src/services/cacheService.ts) and the client-configuration *)
(* endpoint (src/src/controllers/clientConfigController.ts).               *)
(*                                                                         *)
(* JavaScript objects are functions over their property names: a property  *)
(* that is undefined is absent from the DOMAIN.  Parameter values are      *)
(* tokens; the token "false" stands for the boolean false (the falsy       *)
(* value the validation schema admits besides 0).                          *)
(***************************************************************************)
EXTENDS Integers, Sequences, FiniteSets, TLC

VARIABLES
    store,      \* Firestore collection "parameters": document id -> document
    clock,      \* server time; a commit is stamped with the next tick
    req,        \* per client: the request that client has in flight
    commitLog,  \* per document id: currentVersion read by each committed mutation
    cache,      \* Redis: cache key -> entry, for the keys that hold one
    backendUp,  \* the Redis backend answers (TRUE) or fails every command (FALSE)
    isConnected,\* CacheService.isConnected
    reads,      \* per reader: the client-configuration read that reader has in flight
    cacheOp,    \* the last call made on the cache service, with what it returned
    call,       \* the application of a helper function: its arguments and result
    past        \* the store as it was at each tick of the wall clock so far

\* the read side: the cache, the readers and the helper applications
readVars == <<cache, backendUp, isConnected, reads, cacheOp, call>>

vars == <<store, clock, req, commitLog, readVars, past>>

-----------------------------------------------------------------------------
(* Bounds *)

MaxCommits == 2     \* mutating requests are admitted while clock < MaxCommits
MaxLkv == 1         \* lastKnownVersion is drawn from 0..MaxLkv, or omitted
MaxTicks == 3       \* the wall clock runs from 0 to MaxTicks
TicksPerTTL == 2    \* ticks of the wall clock in the 5 minutes a cached snapshot lives

-----------------------------------------------------------------------------
(* JavaScript object helpers *)

EmptyObj == [f \in {} |-> f]

Has(o, f) == f \in DOMAIN o

Without(o, fs) == [f \in (DOMAIN o) \ fs |-> o[f]]

\* { ...a, ...b }: b's properties win
Spread(a, b) == b @@ a

\* truthiness of a parameter value token
Falsy(v) == v \in {"false", "0", ""}

-----------------------------------------------------------------------------
(* Inputs *)

Clients == {"u1", "u2"}             \* callers; the name is the caller's uid

DocIds == {"p1", "p2"}              \* ids of the documents stored initially
MissingId == "p9"                   \* an id with no document
TargetIds == {"p1", MissingId}      \* ids the requests address
OverrideTargetIds == {"p1"}         \* ids the concurrent override requests address

\* ids the store gives to created documents, in the order it hands them out
NewIdOrder == <<"n1", "n2", "n3", "n4", "n5">>

CodeOrder == <<"FR", "US">>         \* the country codes, in key order
Codes == {CodeOrder[i] : i \in 1..Len(CodeOrder)}

\* String.prototype.toUpperCase on the country codes the requests carry
ToUpperCase(s) ==
    CASE s = "us" -> "US"
      [] s = "fr" -> "FR"
      [] OTHER -> s

\* /^[A-Z]{2}$/ on the strings the requests carry
IsTwoUpper(s) == s \in {"US", "FR"}

ServerTimestamp == -1               \* FieldValue.serverTimestamp() sentinel

-----------------------------------------------------------------------------
(* parameterUtils.ts *)

\* mutant: the version is written back as read
incrementVersionStuck(currentVersion) == currentVersion

incrementVersion(currentVersion) == currentVersion + 1

prepareParameterForStorage(data) ==
    LET withOverrides == IF Has(data, "overrides") THEN data
                         ELSE Spread(data, [overrides |-> EmptyObj])
    IN  IF Has(withOverrides, "version") THEN withOverrides
        ELSE Spread(withOverrides, [version |-> 0])

\* overrides?.country?.[code]: defined or not
HasOverride(doc, code) ==
    /\ Has(doc, "overrides")
    /\ Has(doc.overrides, "country")
    /\ Has(doc.overrides.country, code)

\* mutant: the country is looked up as given, without toUpperCase
resolveParameterValueCaseSensitive(parameterData, country) ==
    IF country # "" /\ HasOverride(parameterData, country)
    THEN parameterData.overrides.country[country]
    ELSE parameterData.value

resolveParameterValue(parameterData, country) ==
    IF country # "" /\ HasOverride(parameterData, ToUpperCase(country))
    THEN parameterData.overrides.country[ToUpperCase(country)]
    ELSE parameterData.value

-----------------------------------------------------------------------------
(* configHelpers.ts *)

\* mutant: an absent version equals no lastKnownVersion
VersionOfStored(doc) == IF Has(doc, "version") THEN doc.version ELSE -1

\* existingData.version || 0
VersionOf(doc) == IF Has(doc, "version") /\ doc.version # 0 THEN doc.version ELSE 0

\* existingData.overrides || {}
OverridesOf(doc) == IF Has(doc, "overrides") THEN doc.overrides ELSE EmptyObj

\* overrides.country || {}
CountryOf(overrides) == IF Has(overrides, "country") THEN overrides.country ELSE EmptyObj

\* Object.keys of a country map
KeysOf(m) == SelectSeq(CodeOrder, LAMBDA c : c \in DOMAIN m)

\* mutant: a creation counts as a first mutation
createParameterObjectCounting(body, uid, isUpdate, currentVersion) ==
    LET parameterData ==
            [key         |-> body.key,
             value       |-> body.value,
             description |-> IF Has(body, "description") THEN body.description ELSE "",
             overrides   |-> IF Has(body, "overrides") THEN body.overrides ELSE EmptyObj,
             isActive    |-> IF Has(body, "isActive") THEN body.isActive ELSE TRUE,
             version     |-> incrementVersion(currentVersion)]
        finalData ==
            Spread(prepareParameterForStorage(parameterData),
                   [updatedAt |-> ServerTimestamp, lastUpdatedBy |-> uid])
    IN  IF isUpdate THEN finalData
        ELSE Spread(finalData, [createdAt |-> ServerTimestamp])

createParameterObject(body, uid, isUpdate, currentVersion) ==
    LET parameterData ==
            [key         |-> body.key,
             value       |-> body.value,
             description |-> IF Has(body, "description") THEN body.description ELSE "",
             overrides   |-> IF Has(body, "overrides") THEN body.overrides ELSE EmptyObj,
             isActive    |-> IF Has(body, "isActive") THEN body.isActive ELSE TRUE,
             version     |-> IF isUpdate THEN incrementVersion(currentVersion) ELSE 0]
        finalData ==
            Spread(prepareParameterForStorage(parameterData),
                   [updatedAt |-> ServerTimestamp, lastUpdatedBy |-> uid])
    IN  IF isUpdate THEN finalData
        ELSE Spread(finalData, [createdAt |-> ServerTimestamp])

\* mutant: in merge mode the incoming country map takes the place of the stored one
mergeOverridesShallow(existingOverrides, newOverrides, operation) ==
    IF operation = "replace" THEN newOverrides
    ELSE Spread(existingOverrides, newOverrides)

mergeOverrides(existingOverrides, newOverrides, operation) ==
    IF operation = "replace" THEN newOverrides
    ELSE IF Has(newOverrides, "country")
         THEN Spread(existingOverrides,
                     [country |-> Spread(CountryOf(existingOverrides), newOverrides.country)])
         ELSE existingOverrides

removeCountryOverride(overrides, countryCode) ==
    IF Has(overrides, "country")
    THEN Spread(overrides,
                [country |-> Without(overrides.country, {ToUpperCase(countryCode)})])
    ELSE overrides

\* mutant: the country map is rebuilt with the one code that is set
setCountryOverrideAlone(overrides, countryCode, value) ==
    Spread(overrides, [country |-> ToUpperCase(countryCode) :> value])

setCountryOverride(overrides, countryCode, value) ==
    Spread(overrides,
           [country |-> Spread(CountryOf(overrides), ToUpperCase(countryCode) :> value)])

\* TRUE when the operation is accepted, FALSE when it throws ValidationError
validateCountryOverrideOperation(countryCode, hasValue, operation) ==
    /\ countryCode # ""
    /\ IsTwoUpper(ToUpperCase(countryCode))
    /\ ~(operation = "set" /\ ~hasValue)

\* the scalar fields detectConflictingFields compares, in its order
FieldsToCheck == <<"key", "value", "description", "isActive">>

\* mutant: every stored scalar field that differs is listed, carried or not
detectConflictingFieldsOfStored(updateData, existingData) ==
    SelectSeq(FieldsToCheck,
              LAMBDA f : ~Has(updateData, f) \/ ~Has(existingData, f)
                            \/ updateData[f] # existingData[f])

detectConflictingFields(updateData, existingData) ==
    LET scalar == SelectSeq(FieldsToCheck,
                      LAMBDA f : /\ Has(updateData, f)
                                 /\ (~Has(existingData, f) \/ updateData[f] # existingData[f]))
        upd == CountryOf(OverridesOf(updateData))
        ext == CountryOf(OverridesOf(existingData))
        countries == KeysOf(upd) \o KeysOf(ext)
        differing == SelectSeq(countries,
                      LAMBDA c : /\ Has(upd, c)
                                 /\ (~Has(ext, c) \/ upd[c] # ext[c]))
        paths == [i \in 1..Len(differing) |-> "overrides.country." \o differing[i]]
    IN  IF Has(updateData, "overrides") /\ Has(existingData, "overrides")
        THEN scalar \o paths
        ELSE scalar

\* mutant: the query finds no document
checkParameterKeyExistsNowhere(key, excludeId) == {}

\* ids of the documents whose key is `key`, the document excludeId left out
checkParameterKeyExists(key, excludeId) ==
    {d \in DOMAIN store : d # excludeId /\ Has(store[d], "key") /\ store[d].key = key}

-----------------------------------------------------------------------------
(* userUtils.ts *)

EmailOf(uid) == uid \o "@acme.test"

\* the values resolveUserIdToEmail can return: the email when the lookup
\* succeeds, the uid when the lookup or the cache fails
resolveUserIdToEmail(uid) ==
    IF uid = "" THEN {"unknown"} ELSE {EmailOf(uid), uid}

-----------------------------------------------------------------------------
(* Request bodies, as the validation middleware lets them through *)

\* lastKnownVersion (optional) and forceUpdate (default false)
VersionFields ==
    {[forceUpdate |-> f] : f \in BOOLEAN}
        \cup {[forceUpdate |-> f, lastKnownVersion |-> n] : f \in BOOLEAN, n \in 0..MaxLkv}

WithVersionFields(fields) == {Spread(b, v) : b \in fields, v \in VersionFields}

\* updateParameterSchema: key and value required
UpdateFields == {[key |-> k, value |-> v] : k \in {"k1", "k2"}, v \in {"B"}}

\* countryOverrideSchema: value required
OverrideFields == {[value |-> v] : v \in {"B", "false"}}

OverrideCodes == {"US"}

\* the optional properties of a full update, each present or omitted
OptionalFields ==
    {Spread(Spread(d, a), o) :
        d \in {EmptyObj, [description |-> "d1"]},
        a \in {EmptyObj, [isActive |-> TRUE], [isActive |-> FALSE]},
        o \in {EmptyObj,
               [overrides |-> EmptyObj],
               [overrides |-> [country |-> ("FR" :> "C")]],
               [overrides |-> [country |-> ("US" :> "C")]]}}

FrameUpdateFields ==
    {Spread([key |-> "k1", value |-> v], o) : v \in {"A", "B"}, o \in OptionalFields}

FrameOverrideFields == {[value |-> v] : v \in {"B", "C", "false"}}

FrameOverrideCodes == {"US", "FR"}

-----------------------------------------------------------------------------
(* State *)

NoResp == [status |-> "none"]

IdleReq ==
    [pc |-> "idle", op |-> "none", id |-> "", countryCode |-> "", body |-> EmptyObj,
     snap |-> EmptyObj, write |-> EmptyObj, finalVersion |-> 0,
     resp |-> NoResp, stored |-> -1]

InitialDocs ==
    [d \in DocIds |->
        [key |-> IF d = "p1" THEN "k1" ELSE "k2",
         value |-> "A",
         description |-> "d0",
         overrides |-> [country |-> ("US" :> "B")],
         isActive |-> TRUE,
         version |-> 0,
         createdAt |-> 0,
         updatedAt |-> 0,
         lastUpdatedBy |-> "u0"]]

Readers == {"m1"}                   \* callers of the client-configuration endpoint

NoCall == [fn |-> "none"]

NoOp == [op |-> "none"]

\* hit, queried, direct, getFailed and setFailed record the path of the read:
\* answered from the cache, store queried, getOrSet's catch block taken, and
\* the backend failing at the cache read and at the cache write
IdleRead ==
    [pc |-> "idle", country |-> "", cacheKey |-> "", hit |-> FALSE,
     data |-> EmptyObj, queried |-> FALSE, direct |-> FALSE,
     getFailed |-> FALSE, setFailed |-> FALSE, resp |-> NoResp]

\* index.ts initializeServices: the cache is empty and connected when the
\* backend answers at startup, and not connected when it does not
ReadSideAtStartup(up) ==
    /\ cache = EmptyObj
    /\ backendUp = up
    /\ isConnected = up
    /\ reads = [m \in Readers |-> IdleRead]
    /\ cacheOp = NoOp

AdminSideAtStartup ==
    /\ store = InitialDocs
    /\ clock = 0
    /\ req = [c \in Clients |-> IdleReq]
    /\ commitLog = [d \in DocIds \cup {MissingId} |-> <<>>]
    /\ past = <<>>

Init ==
    /\ AdminSideAtStartup
    /\ ReadSideAtStartup(TRUE)
    /\ call = NoCall

-----------------------------------------------------------------------------
(* Handlers of configController.ts *)

Failed(r, status) == [r EXCEPT !.pc = "done", !.resp = [status |-> status]]

HasLkv(body) == Has(body, "lastKnownVersion")

\* lastKnownVersion || 0
LkvOrZero(body) == IF HasLkv(body) THEN body.lastKnownVersion ELSE 0

\* mutant: only a lastKnownVersion ahead of the stored version conflicts
VersionConflictNewerOnly(body, currentVersion) ==
    /\ HasLkv(body)
    /\ body.lastKnownVersion > currentVersion
    /\ ~body.forceUpdate

\* mutant: forceUpdate is not consulted
VersionConflictIgnoringForce(body, currentVersion) ==
    /\ HasLkv(body)
    /\ body.lastKnownVersion # currentVersion

\* mutant: an omitted lastKnownVersion is compared as 0
VersionConflictDefaultZero(body, currentVersion) ==
    /\ LkvOrZero(body) # currentVersion
    /\ ~body.forceUpdate

\* lastKnownVersion !== undefined && lastKnownVersion !== currentVersion && !forceUpdate
VersionConflict(body, currentVersion) ==
    /\ HasLkv(body)
    /\ body.lastKnownVersion # currentVersion
    /\ ~body.forceUpdate

\* mutant: currentVersion and providedVersion change places
ConflictOutcomesSwapped(r, existingData, conflictingFields) ==
    {[r EXCEPT !.pc = "done",
               !.resp = [status |-> "Conflict",
                         details |->
                            [currentVersion |-> r.body.lastKnownVersion,
                             providedVersion |-> VersionOf(existingData),
                             lastModifiedBy |-> who,
                             lastModifiedAt |-> IF Has(existingData, "updatedAt")
                                                THEN existingData.updatedAt ELSE -1,
                             conflictingFields |-> conflictingFields]]] :
        who \in resolveUserIdToEmail(IF Has(existingData, "lastUpdatedBy")
                                     THEN existingData.lastUpdatedBy ELSE "")}

\* the ConflictError a transaction throws, one per identity-resolution result
ConflictOutcomes(r, existingData, conflictingFields) ==
    {[r EXCEPT !.pc = "done",
               !.resp = [status |-> "Conflict",
                         details |->
                            [currentVersion |-> VersionOf(existingData),
                             providedVersion |-> IF HasLkv(r.body)
                                                 THEN r.body.lastKnownVersion ELSE -1,
                             lastModifiedBy |-> who,
                             lastModifiedAt |-> IF Has(existingData, "updatedAt")
                                                THEN existingData.updatedAt ELSE -1,
                             conflictingFields |-> conflictingFields]]] :
        who \in resolveUserIdToEmail(IF Has(existingData, "lastUpdatedBy")
                                     THEN existingData.lastUpdatedBy ELSE "")}

ToCommit(r, existingData, write) ==
    [r EXCEPT !.pc = "commit", !.snap = existingData, !.write = write]

\* updateParameter: arrival and the duplicate-key pre-check
UpdateParameter(c, id, body) ==
    /\ req[c].pc = "idle"
    /\ clock < MaxCommits
    /\ LET r == [IdleReq EXCEPT !.op = "update", !.id = id, !.body = body]
       IN  req' = [req EXCEPT ![c] =
                IF checkParameterKeyExists(body.key, id) # {}
                THEN Failed(r, "DuplicateKey")
                ELSE [r EXCEPT !.pc = "tx"]]
    /\ UNCHANGED <<store, clock, commitLog, readVars, past>>

\* mutant: a payload without overrides stores an empty overrides object
MergedOverridesFromPayload(updateData, existingData) ==
    IF Has(updateData, "overrides")
    THEN mergeOverrides(OverridesOf(existingData), updateData.overrides, "merge")
    ELSE EmptyObj

\* updateParameter: the overrides a full update stores
MergedOverrides(updateData, existingData) ==
    IF Has(updateData, "overrides")
    THEN mergeOverrides(OverridesOf(existingData), updateData.overrides, "merge")
    ELSE OverridesOf(existingData)

\* updateParameter: the function handed to db.runTransaction
UpdateTxn(r, uid) ==
    IF r.id \notin DOMAIN store THEN {Failed(r, "NotFound")}
    ELSE LET existingData == store[r.id]
             currentVersion == VersionOf(existingData)
             updateData == Without(r.body, {"lastKnownVersion", "forceUpdate"})
             mergedOverrides == MergedOverrides(updateData, existingData)
             mergedRequestBody == Spread(updateData, [overrides |-> mergedOverrides])
         IN  IF VersionConflict(r.body, currentVersion)
             THEN ConflictOutcomes(r, existingData,
                                   detectConflictingFields(updateData, existingData))
             ELSE {ToCommit(r, existingData,
                            createParameterObject(mergedRequestBody, uid, TRUE, currentVersion))}

\* setCountryOverrideController: arrival and validateCountryOverrideOperation
SetCountryOverrideController(c, id, countryCode, body) ==
    /\ req[c].pc = "idle"
    /\ clock < MaxCommits
    /\ LET r == [IdleReq EXCEPT !.op = "setOverride", !.id = id,
                                !.countryCode = countryCode, !.body = body]
       IN  req' = [req EXCEPT ![c] =
                IF validateCountryOverrideOperation(countryCode, Has(body, "value"), "set")
                THEN [r EXCEPT !.pc = "tx"]
                ELSE Failed(r, "ValidationError")]
    /\ UNCHANGED <<store, clock, commitLog, readVars, past>>

\* setCountryOverrideController: the function handed to db.runTransaction
SetOverrideTxn(r, uid) ==
    IF r.id \notin DOMAIN store THEN {Failed(r, "NotFound")}
    ELSE LET existingData == store[r.id]
             currentVersion == VersionOf(existingData)
             code == ToUpperCase(r.countryCode)
             updatedOverrides ==
                 setCountryOverride(OverridesOf(existingData), r.countryCode, r.body.value)
             updatedParameter ==
                 Spread(existingData,
                        [overrides |-> updatedOverrides,
                         version |-> incrementVersion(currentVersion),
                         updatedAt |-> ServerTimestamp,
                         lastUpdatedBy |-> uid])
         IN  IF VersionConflict(r.body, currentVersion)
             THEN ConflictOutcomes(r, existingData, <<"overrides.country." \o code>>)
             ELSE {ToCommit(r, existingData, updatedParameter)}

\* deleteCountryOverrideController: arrival and validateCountryOverrideOperation
DeleteCountryOverrideController(c, id, countryCode, body) ==
    /\ req[c].pc = "idle"
    /\ clock < MaxCommits
    /\ LET r == [IdleReq EXCEPT !.op = "deleteOverride", !.id = id,
                                !.countryCode = countryCode, !.body = body]
       IN  req' = [req EXCEPT ![c] =
                IF validateCountryOverrideOperation(countryCode, FALSE, "delete")
                THEN [r EXCEPT !.pc = "tx"]
                ELSE Failed(r, "ValidationError")]
    /\ UNCHANGED <<store, clock, commitLog, readVars, past>>

\* mutant: the override is not looked for
OverrideMissingUnchecked(existingData, code) == FALSE

\* !existingData.overrides?.country?.[code]
OverrideMissing(existingData, code) ==
    \/ ~HasOverride(existingData, code)
    \/ Falsy(existingData.overrides.country[code])

\* mutant: the override is looked for before the document is known to exist
DeleteOverrideTxnOverrideFirst(r, uid) ==
    LET exists == r.id \in DOMAIN store
        existingData == IF exists THEN store[r.id] ELSE EmptyObj
        currentVersion == VersionOf(existingData)
        finalVersion == incrementVersion(currentVersion)
        code == ToUpperCase(r.countryCode)
        rr == [r EXCEPT !.finalVersion = finalVersion]
        updatedParameter ==
            Spread(existingData,
                   [overrides |-> removeCountryOverride(OverridesOf(existingData),
                                                        r.countryCode),
                    version |-> finalVersion,
                    updatedAt |-> ServerTimestamp,
                    lastUpdatedBy |-> uid])
    IN  IF OverrideMissing(existingData, code) THEN {Failed(rr, "ValidationError")}
        ELSE IF ~exists THEN {Failed(r, "NotFound")}
        ELSE IF VersionConflict(r.body, currentVersion)
        THEN ConflictOutcomes(rr, existingData, <<"overrides.country." \o code>>)
        ELSE {ToCommit(rr, existingData, updatedParameter)}

\* deleteCountryOverrideController: the function handed to db.runTransaction
DeleteOverrideTxn(r, uid) ==
    IF r.id \notin DOMAIN store THEN {Failed(r, "NotFound")}
    ELSE LET existingData == store[r.id]
             currentVersion == VersionOf(existingData)
             finalVersion == incrementVersion(currentVersion)
             code == ToUpperCase(r.countryCode)
             rr == [r EXCEPT !.finalVersion = finalVersion]
             updatedOverrides ==
                 removeCountryOverride(OverridesOf(existingData), r.countryCode)
             updatedParameter ==
                 Spread(existingData,
                        [overrides |-> updatedOverrides,
                         version |-> finalVersion,
                         updatedAt |-> ServerTimestamp,
                         lastUpdatedBy |-> uid])
         IN  IF OverrideMissing(existingData, code)
             THEN {Failed(rr, "ValidationError")}
             ELSE IF VersionConflict(r.body, currentVersion)
             THEN ConflictOutcomes(rr, existingData, <<"overrides.country." \o code>>)
             ELSE {ToCommit(rr, existingData, updatedParameter)}

-----------------------------------------------------------------------------
(* db.runTransaction *)

TxnOutcomes(r, uid) ==
    CASE r.op = "update" -> UpdateTxn(r, uid)
      [] r.op = "setOverride" -> SetOverrideTxn(r, uid)
      [] r.op = "deleteOverride" -> DeleteOverrideTxn(r, uid)

\* one attempt of the transaction function: transaction.get, the checks, and
\* either a throw (the transaction is abandoned) or a buffered update
TxRead(c) ==
    /\ req[c].pc = "tx"
    /\ \E out \in TxnOutcomes(req[c], c) : req' = [req EXCEPT ![c] = out]
    /\ UNCHANGED <<store, clock, commitLog, readVars, past>>

\* mutant: the write is applied without the store comparing the document read
SnapshotUnchecked(id, snap) == id \in DOMAIN store

\* the document a transaction read is still the stored one when it commits
SnapshotIsCurrent(id, snap) == id \in DOMAIN store /\ store[id] = snap

\* mutant: serverTimestamp sentinels take the time of the previous commit
ResolveTimestampsStale(data, now) ==
    [f \in DOMAIN data |-> IF f \in {"updatedAt", "createdAt"} /\ data[f] = ServerTimestamp
                           THEN now - 1 ELSE data[f]]

\* serverTimestamp sentinels take the commit time
ResolveTimestamps(data, now) ==
    [f \in DOMAIN data |-> IF f \in {"updatedAt", "createdAt"} /\ data[f] = ServerTimestamp
                           THEN now ELSE data[f]]

\* the newVersion of the success response
ReportedVersion(r) ==
    IF r.op = "deleteOverride" THEN r.finalVersion ELSE LkvOrZero(r.body) + 1

\* commit of transaction.update(parameterRef, data) and the success response;
\* when the document changed since it was read, the function is run again.
\* Firestore serializes transactions on a document: a write is applied only
\* against the document the transaction read (re-runs stay below Firestore's
\* attempt limit: a transaction is overtaken at most MaxCommits + 1 times)
TxCommit(c) ==
    LET r == req[c] IN
    /\ r.pc = "commit"
    /\ UNCHANGED <<readVars, past>>
    /\ IF SnapshotIsCurrent(r.id, r.snap)
       THEN LET written == Spread(store[r.id], ResolveTimestamps(r.write, clock + 1))
            IN  /\ store' = [store EXCEPT ![r.id] = written]
                /\ clock' = clock + 1
                /\ commitLog' = [commitLog EXCEPT ![r.id] = Append(@, VersionOf(r.snap))]
                /\ req' = [req EXCEPT ![c] =
                        [r EXCEPT !.pc = "done",
                                  !.snap = EmptyObj,
                                  !.write = EmptyObj,
                                  !.stored = written.version,
                                  !.resp = [status |-> "ok",
                                            newVersion |-> ReportedVersion(r)]]]
       ELSE /\ req' = [req EXCEPT ![c] = [r EXCEPT !.pc = "tx", !.snap = EmptyObj,
                                                   !.write = EmptyObj, !.finalVersion = 0]]
            /\ UNCHANGED <<store, clock, commitLog>>

\* the response is delivered; the client may send its next request
Retire(c) ==
    /\ req[c].pc = "done"
    /\ req' = [req EXCEPT ![c] = IdleReq]
    /\ UNCHANGED <<store, clock, commitLog, readVars, past>>

-----------------------------------------------------------------------------
(* Concurrent clients, minimal bodies *)

Next ==
    \/ \E c \in Clients, id \in TargetIds, b \in WithVersionFields(UpdateFields) :
            UpdateParameter(c, id, b)
    \/ \E c \in Clients, id \in OverrideTargetIds, code \in OverrideCodes,
          b \in WithVersionFields(OverrideFields) :
            SetCountryOverrideController(c, id, code, b)
    \/ \E c \in Clients, id \in OverrideTargetIds, code \in OverrideCodes,
          b \in WithVersionFields({EmptyObj}) :
            DeleteCountryOverrideController(c, id, code, b)
    \/ \E c \in Clients : TxRead(c)
    \/ \E c \in Clients : TxCommit(c)
    \/ \E c \in Clients : Retire(c)

Spec == Init /\ [][Next]_vars

-----------------------------------------------------------------------------
(* One client, full bodies *)

FrameClients == {"u1"}

NextFrame ==
    \/ \E c \in FrameClients, id \in TargetIds, b \in WithVersionFields(FrameUpdateFields) :
            UpdateParameter(c, id, b)
    \/ \E c \in FrameClients, id \in TargetIds, code \in FrameOverrideCodes,
          b \in WithVersionFields(FrameOverrideFields) :
            SetCountryOverrideController(c, id, code, b)
    \/ \E c \in FrameClients, id \in TargetIds, code \in FrameOverrideCodes,
          b \in WithVersionFields({EmptyObj}) :
            DeleteCountryOverrideController(c, id, code, b)
    \/ \E c \in FrameClients : TxRead(c)
    \/ \E c \in FrameClients : TxCommit(c)
    \/ \E c \in FrameClients : Retire(c)

SpecFrame == Init /\ [][NextFrame]_vars

-----------------------------------------------------------------------------
(* One client, full updates of the scalar fields, a free key among the keys *)

FieldUpdateFields ==
    {Spread([key |-> k, value |-> v], Spread(d, a)) :
        k \in {"k1", "k3"}, v \in {"A", "B"},
        d \in {EmptyObj, [description |-> "d0"], [description |-> "d1"]},
        a \in {EmptyObj, [isActive |-> TRUE], [isActive |-> FALSE]}}

NextFields ==
    \/ \E c \in FrameClients, id \in TargetIds, b \in WithVersionFields(FieldUpdateFields) :
            UpdateParameter(c, id, b)
    \/ \E c \in FrameClients, id \in TargetIds, code \in OverrideCodes,
          b \in WithVersionFields(OverrideFields) :
            SetCountryOverrideController(c, id, code, b)
    \/ \E c \in FrameClients, id \in TargetIds, code \in FrameOverrideCodes,
          b \in WithVersionFields({EmptyObj}) :
            DeleteCountryOverrideController(c, id, code, b)
    \/ \E c \in FrameClients : TxRead(c)
    \/ \E c \in FrameClients : TxCommit(c)
    \/ \E c \in FrameClients : Retire(c)

SpecFields == Init /\ [][NextFields]_vars

-----------------------------------------------------------------------------
(* services/cacheService.ts *)

defaultTTL == 5 * 60                \* seconds

\* CacheKeys
CLIENT_CONFIG(country) ==
    "acme:config:client:" \o (IF country = "" THEN "default" ELSE country)

USER_EMAIL(uid) == "acme:user:email:" \o uid

\* what follows "acme:" in the keys the cache holds
KeyTails ==
    {"config:client:default", "config:client:US", "config:client:FR", "user:email:u0"}

KeyPrefixes == {"acme:", "acme:config:client:", "acme:user:email:"}

\* SCAN MATCH with a pattern that ends in *
Matches(pattern, key) ==
    \E prefix \in KeyPrefixes :
        /\ pattern = prefix \o "*"
        /\ \E tail \in KeyTails \cup {"default", "US", "FR", "u0"} : key = prefix \o tail

\* JSON.stringify and JSON.parse of a cached value: the text wraps the value
JSONStringify(data) == <<"json", data>>

JSONParse(text) == text[2]

\* what a call on the cache service leaves behind: the value it returns or the
\* error it throws, the cache contents, and isConnected (the connect and error
\* events of the client follow the backend)
Returning(value, contents) ==
    [threw |-> FALSE, value |-> value, cache |-> contents, isConnected |-> backendUp]

Throwing(error) ==
    [threw |-> TRUE, value |-> [error |-> error], cache |-> cache,
     isConnected |-> backendUp]

NullValue == [isNull |-> TRUE]

\* the expiration time of an entry: ttl || this.defaultTTL (0: no ttl given)
ExpirationTime(ttl) == IF ttl = 0 THEN defaultTTL ELSE ttl

\* mutant: a failed read answers with an empty object
cacheGetEmptyOnError(key) ==
    IF ~backendUp THEN Returning([isNull |-> FALSE, data |-> EmptyObj], cache)
    ELSE IF key \notin DOMAIN cache THEN Returning(NullValue, cache)
    ELSE Returning([isNull |-> FALSE, data |-> JSONParse(cache[key].data)], cache)

\* CacheService.get: connect() or the GET fails: the catch block returns null
cacheGet(key) ==
    IF ~backendUp THEN Returning(NullValue, cache)
    ELSE IF key \notin DOMAIN cache THEN Returning(NullValue, cache)
    ELSE Returning([isNull |-> FALSE, data |-> JSONParse(cache[key].data)], cache)

\* mutant: the entry is written without an expiration time
cacheSetNoExpiry(key, data, ttl) ==
    IF ~backendUp THEN Returning([void |-> TRUE], cache)
    ELSE Returning([void |-> TRUE],
                   (key :> [data |-> JSONStringify(data), ttl |-> 0]) @@ cache)

\* CacheService.set: connect() or the SETEX fails: the catch block returns
cacheSet(key, data, ttl) ==
    IF ~backendUp THEN Returning([void |-> TRUE], cache)
    ELSE Returning([void |-> TRUE],
                   (key :> [data |-> JSONStringify(data), ttl |-> ExpirationTime(ttl)])
                        @@ cache)

\* CacheService.delete: connect() or the DEL fails: the catch block returns false
cacheDelete(key) ==
    IF ~backendUp THEN Returning([deleted |-> FALSE], cache)
    ELSE Returning([deleted |-> key \in DOMAIN cache], Without(cache, {key}))

\* mutant: the failure is thrown on as a CacheError, as clear() does
invalidatePatternThrowing(pattern) ==
    IF ~backendUp THEN Throwing("CacheError")
    ELSE LET keys == {k \in DOMAIN cache : Matches(pattern, k)}
         IN  Returning([count |-> Cardinality(keys)], Without(cache, keys))

\* CacheService.invalidatePattern: connect(), SCAN or DEL fails: the catch
\* block returns 0
invalidatePattern(pattern) ==
    IF ~backendUp THEN Returning([count |-> 0], cache)
    ELSE LET keys == {k \in DOMAIN cache : Matches(pattern, k)}
         IN  Returning([count |-> Cardinality(keys)], Without(cache, keys))

\* CacheService.clear: the catch block throws a CacheError
cacheClear ==
    IF ~backendUp THEN Throwing("CacheError")
    ELSE Returning([void |-> TRUE], EmptyObj)

\* the Redis backend stops answering; the client's error event fires
BackendFails ==
    /\ backendUp
    /\ backendUp' = FALSE
    /\ isConnected' = FALSE
    /\ UNCHANGED <<store, clock, req, commitLog, past, cache, reads, cacheOp, call>>

\* the Redis backend answers again; the service connects on its next call
BackendRecovers ==
    /\ ~backendUp
    /\ backendUp' = TRUE
    /\ UNCHANGED <<store, clock, req, commitLog, past, cache, isConnected, reads, cacheOp, call>>

\* an entry reaches its expiration time and Redis drops it
Expire(key) ==
    /\ key \in DOMAIN cache
    /\ cache' = Without(cache, {key})
    /\ UNCHANGED <<store, clock, req, commitLog, past, backendUp, isConnected, reads, cacheOp, call>>

-----------------------------------------------------------------------------
(* Calls on the cache service *)

CachedValues == {[k1 |-> "A"], [k1 |-> "B"]}

CacheKeySet == {CLIENT_CONFIG(""), CLIENT_CONFIG("US"), USER_EMAIL("u0")}

Patterns == {"acme:config:client:*", "acme:*"}

GivenTTLs == {0, 24 * 60 * 60}     \* no ttl given, or the 24 hours of userUtils.ts

\* the record of a call: what it was given and what it returned or threw
Recorded(op, arg, outcome) ==
    [op |-> op, arg |-> arg, failed |-> ~backendUp,
     threw |-> outcome.threw, value |-> outcome.value]

\* the call leaves the cache and the connection as its outcome says
Applied(outcome) ==
    /\ cache' = outcome.cache
    /\ isConnected' = outcome.isConnected
    /\ UNCHANGED <<store, clock, req, commitLog, past, backendUp, reads, call>>

CacheGetCall(key) ==
    /\ cacheOp' = Recorded("get", key, cacheGet(key))
    /\ Applied(cacheGet(key))

CacheSetCall(key, data, ttl) ==
    /\ cacheOp' = Recorded("set", key, cacheSet(key, data, ttl))
    /\ Applied(cacheSet(key, data, ttl))

CacheDeleteCall(key) ==
    /\ cacheOp' = Recorded("delete", key, cacheDelete(key))
    /\ Applied(cacheDelete(key))

InvalidatePatternCall(pattern) ==
    /\ cacheOp' = Recorded("invalidatePattern", pattern, invalidatePattern(pattern))
    /\ Applied(invalidatePattern(pattern))

CacheClearCall ==
    /\ cacheOp' = Recorded("clear", "", cacheClear)
    /\ Applied(cacheClear)

InitCacheOps ==
    /\ AdminSideAtStartup
    /\ \E up \in BOOLEAN : ReadSideAtStartup(up)
    /\ call = NoCall

NextCacheOps ==
    \/ \E key \in CacheKeySet : CacheGetCall(key)
    \/ \E key \in CacheKeySet, data \in CachedValues, ttl \in GivenTTLs :
            CacheSetCall(key, data, ttl)
    \/ \E key \in CacheKeySet : CacheDeleteCall(key)
    \/ \E pattern \in Patterns : InvalidatePatternCall(pattern)
    \/ CacheClearCall
    \/ BackendFails
    \/ BackendRecovers
    \/ \E key \in CacheKeySet : Expire(key)

SpecCacheOps == InitCacheOps /\ [][NextCacheOps]_vars

-----------------------------------------------------------------------------
(* controllers/clientConfigController.ts *)

ClientConfigTTL == 5 * 60           \* the ttl getClientConfig hands to getOrSet

\* the order in which a query returns documents
DocIdOrder == <<"p1", "p2", "p9">> \o NewIdOrder

\* query.get() on getParametersCollectionRef(options): the documents, in order
getParametersCollectionRef(activeOnly) ==
    LET ids == SelectSeq(DocIdOrder,
                   LAMBDA d : /\ d \in DOMAIN store
                              /\ activeOnly => /\ Has(store[d], "isActive")
                                                /\ store[d].isActive = TRUE)
    IN  [i \in 1..Len(ids) |-> [id |-> ids[i], data |-> store[ids[i]]]]

isValidParameterDocument(data) ==
    /\ Has(data, "key")
    /\ ~(Has(data, "isActive") /\ data.isActive = FALSE)

transformDocumentToParameterData(doc) ==
    Spread(doc.data, [id |-> doc.id, version |-> VersionOf(doc.data)])

\* mutant: every parameter is resolved without the country
buildConfigurationObjectDefaultOnly(docs, country) ==
    LET valid == SelectSeq(docs, LAMBDA doc : isValidParameterDocument(doc.data))
        last(k) == CHOOSE i \in 1..Len(valid) :
                      /\ valid[i].data.key = k
                      /\ \A j \in 1..Len(valid) : valid[j].data.key = k => j <= i
    IN  [k \in {valid[i].data.key : i \in 1..Len(valid)} |->
            resolveParameterValue(transformDocumentToParameterData(valid[last(k)]), "")]

\* config[key] = value for each valid document in turn: the last document
\* that holds a key gives its value
buildConfigurationObject(docs, country) ==
    LET valid == SelectSeq(docs, LAMBDA doc : isValidParameterDocument(doc.data))
        last(k) == CHOOSE i \in 1..Len(valid) :
                      /\ valid[i].data.key = k
                      /\ \A j \in 1..Len(valid) : valid[j].data.key = k => j <= i
    IN  [k \in {valid[i].data.key : i \in 1..Len(valid)} |->
            resolveParameterValue(transformDocumentToParameterData(valid[last(k)]),
                                  country)]

\* res.status(200).json(config)
Responded(r, config) ==
    [r EXCEPT !.pc = "done", !.resp = [status |-> 200, body |-> config]]

\* getClientConfig: arrival and getOrSet's this.get(key); a cached value is
\* the response, a miss goes on to fetchFn (a get that throws goes to the
\* fetchFn of getOrSet's catch block)
GetClientConfig(m, country) ==
    LET r == [IdleRead EXCEPT !.country = country, !.cacheKey = CLIENT_CONFIG(country),
                              !.getFailed = ~backendUp]
        got == cacheGet(r.cacheKey)
    IN  /\ reads[m].pc = "idle"
        /\ reads' = [reads EXCEPT ![m] =
                IF got.threw THEN [r EXCEPT !.pc = "fetch", !.direct = TRUE]
                ELSE IF got.value.isNull THEN [r EXCEPT !.pc = "fetch"]
                ELSE Responded([r EXCEPT !.hit = TRUE], got.value.data)]
        /\ cache' = got.cache
        /\ isConnected' = got.isConnected
        /\ UNCHANGED <<store, clock, req, commitLog, past, backendUp, cacheOp, call>>

\* fetchFn: the query on the active parameters and buildConfigurationObject;
\* in getOrSet's catch block its result is the response
FetchConfiguration(m) ==
    LET r == reads[m]
        data == buildConfigurationObject(getParametersCollectionRef(TRUE), r.country)
        fetched == [r EXCEPT !.data = data, !.queried = TRUE]
    IN  /\ r.pc = "fetch"
        /\ reads' = [reads EXCEPT ![m] =
                IF r.direct THEN Responded(fetched, data)
                ELSE [fetched EXCEPT !.pc = "set"]]
        /\ UNCHANGED <<store, clock, req, commitLog, past, cache, backendUp, isConnected,
                       cacheOp, call>>

\* getOrSet's this.set(key, data, ttl) and the response
StoreConfiguration(m) ==
    LET r == reads[m]
        put == cacheSet(r.cacheKey, r.data, ClientConfigTTL)
    IN  /\ r.pc = "set"
        /\ reads' = [reads EXCEPT ![m] =
                IF put.threw THEN [r EXCEPT !.pc = "fetch", !.direct = TRUE]
                ELSE Responded([r EXCEPT !.setFailed = ~backendUp], r.data)]
        /\ cache' = put.cache
        /\ isConnected' = put.isConnected
        /\ UNCHANGED <<store, clock, req, commitLog, past, backendUp, cacheOp, call>>

\* the response is delivered; the reader may read again
RetireRead(m) ==
    /\ reads[m].pc = "done"
    /\ reads' = [reads EXCEPT ![m] = IdleRead]
    /\ UNCHANGED <<store, clock, req, commitLog, past, cache, backendUp, isConnected,
                   cacheOp, call>>

-----------------------------------------------------------------------------
(* Client-configuration reads while an administrator mutates p1 *)

\* querySchema: the country is absent or two upper-case letters
QueryCountries == {"", "US"}

ClientConfigKeys == {CLIENT_CONFIG(country) : country \in QueryCountries}

UnversionedFields == {[forceUpdate |-> FALSE]}

ReadSideUpdateFields ==
    {[key |-> "k1", value |-> "A", isActive |-> FALSE], [key |-> "k1", value |-> "C"]}

ReadSideOverrideFields == {[value |-> "false"]}

InitCache ==
    /\ AdminSideAtStartup
    /\ \E up \in BOOLEAN : ReadSideAtStartup(up)
    /\ call = NoCall

NextCache ==
    \/ \E c \in FrameClients, id \in OverrideTargetIds,
          b \in {Spread(f, v) : f \in ReadSideUpdateFields, v \in UnversionedFields} :
            UpdateParameter(c, id, b)
    \/ \E c \in FrameClients, id \in OverrideTargetIds, code \in OverrideCodes,
          b \in {Spread(f, v) : f \in ReadSideOverrideFields, v \in UnversionedFields} :
            SetCountryOverrideController(c, id, code, b)
    \/ \E c \in FrameClients, id \in OverrideTargetIds, code \in OverrideCodes,
          b \in UnversionedFields :
            DeleteCountryOverrideController(c, id, code, b)
    \/ \E c \in FrameClients : TxRead(c)
    \/ \E c \in FrameClients : TxCommit(c)
    \/ \E c \in FrameClients : Retire(c)
    \/ \E m \in Readers, country \in QueryCountries : GetClientConfig(m, country)
    \/ \E m \in Readers : FetchConfiguration(m)
    \/ \E m \in Readers : StoreConfiguration(m)
    \/ \E m \in Readers : RetireRead(m)
    \/ BackendFails
    \/ BackendRecovers
    \/ \E key \in ClientConfigKeys : Expire(key)

SpecCache == InitCache /\ [][NextCache]_vars

-----------------------------------------------------------------------------
(* The wall clock: cache entries age and expire *)

\* seconds of a tick of the wall clock
TickSeconds == ClientConfigTTL \div TicksPerTTL

\* the wall clock, in ticks
Now == Len(past)

\* Redis counts an entry's time to live down and drops the entry at 0
Aged(entries) ==
    [key \in {k \in DOMAIN entries : entries[k].ttl > TickSeconds} |->
        [entries[key] EXCEPT !.ttl = @ - TickSeconds]]

\* a tick of the wall clock goes by
Tick ==
    /\ Now < MaxTicks
    /\ past' = Append(past, store)
    /\ cache' = Aged(cache)
    /\ UNCHANGED <<store, clock, req, commitLog, backendUp, isConnected, reads,
                   cacheOp, call>>

TimedUpdateFields == {[key |-> "k1", value |-> "C", forceUpdate |-> FALSE]}

NextTTL ==
    \/ \E c \in FrameClients, id \in OverrideTargetIds, b \in TimedUpdateFields :
            UpdateParameter(c, id, b)
    \/ \E c \in FrameClients : TxRead(c)
    \/ \E c \in FrameClients : TxCommit(c)
    \/ \E c \in FrameClients : Retire(c)
    \/ \E m \in Readers, country \in QueryCountries : GetClientConfig(m, country)
    \/ \E m \in Readers : FetchConfiguration(m)
    \/ \E m \in Readers : StoreConfiguration(m)
    \/ \E m \in Readers : RetireRead(m)
    \/ Tick

SpecTTL == Init /\ [][NextTTL]_vars

-----------------------------------------------------------------------------
(* addParameter and deleteParameter *)

\* the id db.collection(...).add gives the new document: one no document has
AutoId == NewIdOrder[CHOOSE i \in 1..Len(NewIdOrder) :
                        /\ NewIdOrder[i] \notin DOMAIN store
                        /\ \A j \in 1..(i - 1) : NewIdOrder[j] \in DOMAIN store]

\* mutant: the request goes on to the write without the pre-check
AddParameterUnchecked(c, body) ==
    /\ req[c].pc = "idle"
    /\ clock < MaxCommits
    /\ req' = [req EXCEPT ![c] =
            [IdleReq EXCEPT !.op = "create", !.body = body, !.pc = "add",
                            !.write = createParameterObject(body, c, FALSE, 0)]]
    /\ UNCHANGED <<store, clock, commitLog, readVars, past>>

\* addParameter: arrival and the duplicate-key pre-check
AddParameter(c, body) ==
    /\ req[c].pc = "idle"
    /\ clock < MaxCommits
    /\ LET r == [IdleReq EXCEPT !.op = "create", !.body = body]
       IN  req' = [req EXCEPT ![c] =
                IF checkParameterKeyExists(body.key, "") # {}
                THEN Failed(r, "DuplicateKey")
                ELSE [r EXCEPT !.pc = "add",
                               !.write = createParameterObject(body, c, FALSE, 0)]]
    /\ UNCHANGED <<store, clock, commitLog, readVars, past>>

\* mutant: the document is added only while no stored parameter holds its key
AddDocumentIfKeyFree(c) ==
    LET r == req[c]
        free == checkParameterKeyExists(r.write.key, "") = {}
        written == ResolveTimestamps(r.write, clock + 1)
    IN  /\ r.pc = "add"
        /\ store' = IF free THEN (AutoId :> written) @@ store ELSE store
        /\ clock' = clock + 1
        /\ req' = [req EXCEPT ![c] =
                [r EXCEPT !.pc = "done", !.id = AutoId, !.write = EmptyObj,
                          !.stored = written.version,
                          !.resp = [status |-> IF free THEN "created" ELSE "DuplicateKey",
                                    newVersion |-> written.version]]]
        /\ UNCHANGED <<commitLog, readVars, past>>

\* addParameter: db.collection(PARAMETERS).add(newParameter) and the 201 response
AddDocument(c) ==
    LET r == req[c]
        written == ResolveTimestamps(r.write, clock + 1)
    IN  /\ r.pc = "add"
        /\ store' = (AutoId :> written) @@ store
        /\ clock' = clock + 1
        /\ req' = [req EXCEPT ![c] =
                [r EXCEPT !.pc = "done", !.id = AutoId, !.write = EmptyObj,
                          !.stored = written.version,
                          !.resp = [status |-> "created",
                                    newVersion |-> written.version]]]
        /\ UNCHANGED <<commitLog, readVars, past>>

\* deleteParameter: arrival, fetchParameterDocument, and the start of
\* executeTransactionWithTimeout: the transaction runs and the timer is set
DeleteParameter(c, id) ==
    /\ req[c].pc = "idle"
    /\ clock < MaxCommits
    /\ LET r == [IdleReq EXCEPT !.op = "deleteParameter", !.id = id]
       IN  req' = [req EXCEPT ![c] =
                IF id \notin DOMAIN store THEN Failed(r, "NotFound")
                ELSE [r EXCEPT !.pc = "race", !.snap = store[id]]]
    /\ UNCHANGED <<store, clock, commitLog, readVars, past>>

\* mutant: the document is kept (a soft delete)
DeletedKept(id) == store

\* transaction.delete(doc.ref) takes effect
Deleted(id) == Without(store, {id})

\* the transaction settles first: the document is deleted and the request
\* answers "Parameter deleted successfully"
DeleteCommit(c) ==
    LET r == req[c] IN
    /\ r.pc = "race"
    /\ store' = Deleted(r.id)
    /\ clock' = clock + 1
    /\ req' = [req EXCEPT ![c] = [r EXCEPT !.pc = "done", !.snap = EmptyObj,
                                           !.resp = [status |-> "ok"]]]
    /\ UNCHANGED <<commitLog, readVars, past>>

\* the timer of executeTransactionWithTimeout settles first: Promise.race
\* rejects, the request answers with DatabaseError("Transaction timeout");
\* the promise of db.runTransaction is left running
TimerFires(c) ==
    LET r == req[c] IN
    /\ r.pc = "race"
    /\ req' = [req EXCEPT ![c] = [r EXCEPT !.pc = "answered",
                                           !.resp = [status |-> "TransactionTimeout"]]]
    /\ UNCHANGED <<store, clock, commitLog, readVars, past>>

\* the transaction left running by a timeout commits after the response
LateDeleteCommit(c) ==
    LET r == req[c] IN
    /\ r.pc = "answered"
    /\ store' = Deleted(r.id)
    /\ clock' = clock + 1
    /\ req' = [req EXCEPT ![c] = [r EXCEPT !.pc = "done", !.snap = EmptyObj]]
    /\ UNCHANGED <<commitLog, readVars, past>>

\* the transaction left running by a timeout fails; nobody awaits its promise
LateDeleteFails(c) ==
    LET r == req[c] IN
    /\ r.pc = "answered"
    /\ req' = [req EXCEPT ![c] = [r EXCEPT !.pc = "done", !.snap = EmptyObj]]
    /\ UNCHANGED <<store, clock, commitLog, readVars, past>>

-----------------------------------------------------------------------------
(* The routes of configRoutes.ts and the validation middleware *)

\* countryParamSchema: /^[A-Z]{2}$/ on the countryCode of the path
countryParamSchema(countryCode) == IsTwoUpper(countryCode)

\* mutant: the country map is let through as sent
secureOverridesAsSent(overrides) == overrides

\* secureOverrides under validateBody (stripUnknown): the entries of country
\* whose key does not match /^[A-Z]{2}$/ are removed
secureOverrides(overrides) ==
    IF Has(overrides, "country")
    THEN [overrides EXCEPT !.country =
            [code \in {k \in DOMAIN overrides.country : IsTwoUpper(k)} |->
                overrides.country[code]]]
    ELSE overrides

\* validateBody(parameterSchema) and validateBody(updateParameterSchema):
\* req.body is replaced with the sanitized value
validateBody(body) ==
    IF Has(body, "overrides")
    THEN [body EXCEPT !.overrides = secureOverrides(body.overrides)]
    ELSE body

\* validateParams answers 400 "Validation error" before the handler runs
RejectedByValidateParams(c, op, id, countryCode, body) ==
    /\ req[c].pc = "idle"
    /\ clock < MaxCommits
    /\ req' = [req EXCEPT ![c] =
            Failed([IdleReq EXCEPT !.op = op, !.id = id,
                                   !.countryCode = countryCode, !.body = body],
                   "ValidationError")]
    /\ UNCHANGED <<store, clock, commitLog, readVars, past>>

\* PUT /parameters/:id/overrides/country/:countryCode: one router puts
\* validateParams(countryParamSchema) before the handler, another does not
PutCountryOverride(c, id, countryCode, body, withValidateParams) ==
    IF withValidateParams /\ ~countryParamSchema(countryCode)
    THEN RejectedByValidateParams(c, "setOverride", id, countryCode, body)
    ELSE SetCountryOverrideController(c, id, countryCode, body)

\* DELETE /parameters/:id/overrides/country/:countryCode, likewise
DeleteCountryOverrideRoute(c, id, countryCode, body, withValidateParams) ==
    IF withValidateParams /\ ~countryParamSchema(countryCode)
    THEN RejectedByValidateParams(c, "deleteOverride", id, countryCode, body)
    ELSE DeleteCountryOverrideController(c, id, countryCode, body)

-----------------------------------------------------------------------------
(* One administrator, every mutating route, bodies and codes as sent *)

\* the overrides a body is sent with: none, or country maps with a
\* lower-case key
SentOverrides ==
    {EmptyObj,
     [overrides |-> [country |-> ("us" :> "C")]],
     [overrides |-> [country |-> ("US" :> "C") @@ ("fr" :> "C")]]}

SentParameterFields ==
    {Spread([key |-> k, value |-> "A"], o) : k \in {"k1", "k3"}, o \in SentOverrides}

SentCodes == {"US", "us", "U1"}

AdminTargetIds == {"p1"}

NextAdmin ==
    \/ \E c \in FrameClients, b \in SentParameterFields :
            AddParameter(c, validateBody(b))
    \/ \E c \in FrameClients, id \in AdminTargetIds, b \in SentParameterFields,
          v \in UnversionedFields :
            UpdateParameter(c, id, validateBody(Spread(b, v)))
    \/ \E c \in FrameClients, id \in AdminTargetIds, code \in SentCodes,
          v \in UnversionedFields, withValidateParams \in BOOLEAN :
            PutCountryOverride(c, id, code, Spread([value |-> "B"], v), withValidateParams)
    \/ \E c \in FrameClients, id \in AdminTargetIds, code \in SentCodes,
          v \in UnversionedFields, withValidateParams \in BOOLEAN :
            DeleteCountryOverrideRoute(c, id, code, v, withValidateParams)
    \/ \E c \in FrameClients, id \in TargetIds : DeleteParameter(c, id)
    \/ \E c \in FrameClients : TxRead(c)
    \/ \E c \in FrameClients : TxCommit(c)
    \/ \E c \in FrameClients : AddDocument(c)
    \/ \E c \in FrameClients : DeleteCommit(c)
    \/ \E c \in FrameClients : TimerFires(c)
    \/ \E c \in FrameClients : LateDeleteCommit(c)
    \/ \E c \in FrameClients : LateDeleteFails(c)
    \/ \E c \in FrameClients : Retire(c)

SpecAdmin == Init /\ [][NextAdmin]_vars

-----------------------------------------------------------------------------
(* Concurrent administrators creating parameters and changing keys *)

CreateFields == {[key |-> k, value |-> "A"] : k \in {"k1", "k3"}}

NextCreate ==
    \/ \E c \in Clients, b \in CreateFields : AddParameter(c, b)
    \/ \E c \in Clients, id \in DocIds, b \in CreateFields, v \in UnversionedFields :
            UpdateParameter(c, id, Spread(b, v))
    \/ \E c \in Clients : TxRead(c)
    \/ \E c \in Clients : TxCommit(c)
    \/ \E c \in Clients : AddDocument(c)
    \/ \E c \in Clients : Retire(c)

SpecCreate == Init /\ [][NextCreate]_vars

-----------------------------------------------------------------------------
(* utils/userUtils.ts: resolveUserIdToEmail on the cache service *)

IdentityTTL == 24 * 60 * 60         \* the ttl resolveUserIdToEmail hands to getOrSet

\* what admin.auth().getUser(uid) does when fetchFn calls it: the user record
\* has an email, has none, or the call throws
LookupOutcomes == {"email", "noEmail", "throws"}

\* fetchFn of resolveUserIdToEmail
FetchUserEmail(uid, lookup) ==
    CASE lookup = "email" -> [threw |-> FALSE, value |-> EmailOf(uid)]
      [] lookup = "noEmail" -> [threw |-> FALSE, value |-> uid]
      [] lookup = "throws" -> [threw |-> TRUE, value |-> "auth/error"]

\* cacheService.getOrSet(USER_EMAIL(uid), fetchFn, 24h): a cached value is
\* returned; on a miss fetchFn runs and its value is cached; when fetchFn
\* throws the catch block runs it a second time, outside any try
GetOrSetUserEmail(uid, lookups) ==
    LET key == USER_EMAIL(uid)
        got == cacheGet(key)
        first == FetchUserEmail(uid, lookups[1])
        second == FetchUserEmail(uid, lookups[2])
    IN  IF ~got.value.isNull
        THEN [threw |-> FALSE, value |-> got.value.data, cache |-> cache]
        ELSE IF ~first.threw
        THEN [threw |-> FALSE, value |-> first.value,
              cache |-> cacheSet(key, first.value, IdentityTTL).cache]
        ELSE [threw |-> second.threw, value |-> second.value, cache |-> cache]

\* mutant: what getOrSet throws is thrown on to the caller
resolveUserIdToEmailUncaught(uid, lookups) ==
    IF uid = "" THEN [threw |-> FALSE, value |-> "unknown", cache |-> cache]
    ELSE GetOrSetUserEmail(uid, lookups)

\* resolveUserIdToEmail with the lookups going as given: "unknown" for an
\* empty uid, email || uid from getOrSet, and the uid from the catch block
resolveUserIdToEmailGiven(uid, lookups) ==
    IF uid = "" THEN [threw |-> FALSE, value |-> "unknown", cache |-> cache]
    ELSE LET out == GetOrSetUserEmail(uid, lookups)
         IN  IF out.threw THEN [threw |-> FALSE, value |-> uid, cache |-> out.cache]
             ELSE [out EXCEPT !.value = IF @ = "" THEN uid ELSE @]

\* a call of resolveUserIdToEmail, with what it found and what it returned
ResolveUserIdToEmail(uid, lookups) ==
    LET out == resolveUserIdToEmailGiven(uid, lookups)
        key == USER_EMAIL(uid)
    IN  /\ call' = [fn |-> "resolveUserIdToEmail", uid |-> uid, lookups |-> lookups,
                    cacheFailed |-> ~backendUp,
                    cached |-> IF backendUp /\ key \in DOMAIN cache
                               THEN <<JSONParse(cache[key].data)>> ELSE <<>>,
                    threw |-> out.threw, result |-> out.value]
        /\ cache' = out.cache
        /\ isConnected' = backendUp
        /\ UNCHANGED <<store, clock, req, commitLog, past, backendUp, reads, cacheOp>>

EditorIds == {"", "u0"}

NextIdentity ==
    \/ \E uid \in EditorIds, lookups \in LookupOutcomes \X LookupOutcomes :
            ResolveUserIdToEmail(uid, lookups)
    \/ BackendFails
    \/ BackendRecovers
    \/ \E key \in {USER_EMAIL(uid) : uid \in EditorIds} : Expire(key)

SpecIdentity == InitCache /\ [][NextIdentity]_vars

-----------------------------------------------------------------------------
(* The life of a parameter: a legacy document, creation, mutation, deletion *)

\* the stored documents, p2 written before versioning existed: it has no
\* version field
LegacyDocs == [InitialDocs EXCEPT !["p2"] = Without(@, {"version"})]

\* the ids the mutating requests target: the stored documents and the
\* first id a creation takes
LifecycleIds == DocIds \cup {NewIdOrder[1]}

\* parameterSchema and updateParameterSchema: key and value, with isActive
\* and overrides supplied or omitted
LifecycleFields ==
    {Spread([key |-> k, value |-> "A"], o) :
        k \in {"k2", "k3"},
        o \in {EmptyObj,
               [isActive |-> FALSE, overrides |-> [country |-> ("US" :> "C")]]}}

InitLifecycle ==
    /\ store = LegacyDocs
    /\ clock = 0
    /\ req = [c \in Clients |-> IdleReq]
    /\ commitLog = [d \in LifecycleIds |-> <<>>]
    /\ past = <<>>
    /\ ReadSideAtStartup(TRUE)
    /\ call = NoCall

NextLifecycle ==
    \/ \E c \in FrameClients, b \in LifecycleFields : AddParameter(c, b)
    \/ \E c \in FrameClients, id \in LifecycleIds, b \in WithVersionFields(LifecycleFields) :
            UpdateParameter(c, id, b)
    \/ \E c \in FrameClients, id \in LifecycleIds, code \in FrameOverrideCodes,
          b \in WithVersionFields({[value |-> "C"]}) :
            SetCountryOverrideController(c, id, code, b)
    \/ \E c \in FrameClients, id \in LifecycleIds, code \in FrameOverrideCodes,
          b \in WithVersionFields({EmptyObj}) :
            DeleteCountryOverrideController(c, id, code, b)
    \/ \E c \in Clients, id \in TargetIds : DeleteParameter(c, id)
    \/ \E c \in FrameClients : TxRead(c)
    \/ \E c \in FrameClients : TxCommit(c)
    \/ \E c \in FrameClients : AddDocument(c)
    \/ \E c \in Clients : DeleteCommit(c)
    \/ \E c \in Clients : TimerFires(c)
    \/ \E c \in Clients : LateDeleteCommit(c)
    \/ \E c \in Clients : LateDeleteFails(c)
    \/ \E c \in Clients : Retire(c)

SpecLifecycle == InitLifecycle /\ [][NextLifecycle]_vars

-----------------------------------------------------------------------------
(* Concurrent client-configuration reads, the store query failing at times *)

\* fetchFn throws: query.get() rejects. Inside getOrSet's try block the catch
\* block takes over and runs fetchFn again; inside the catch block the error
\* leaves getOrSet and getClientConfig answers 500 "Internal server error"
QueryFails(m) ==
    LET r == reads[m]
    IN  /\ r.pc = "fetch"
        /\ reads' = [reads EXCEPT ![m] =
                IF r.direct
                THEN [r EXCEPT !.pc = "done", !.resp = [status |-> 500, body |-> EmptyObj]]
                ELSE [r EXCEPT !.direct = TRUE]]
        /\ UNCHANGED <<store, clock, req, commitLog, past, cache, backendUp, isConnected,
                       cacheOp, call>>

\* two callers of the client-configuration endpoint at a time
ConcurrentReaders == {"m1", "m2"}

InitReads ==
    /\ AdminSideAtStartup
    /\ cache = EmptyObj
    /\ backendUp = TRUE
    /\ isConnected = TRUE
    /\ reads = [m \in ConcurrentReaders |-> IdleRead]
    /\ cacheOp = NoOp
    /\ call = NoCall

NextReads ==
    \/ \E c \in FrameClients, id \in OverrideTargetIds, b \in TimedUpdateFields :
            UpdateParameter(c, id, b)
    \/ \E c \in FrameClients : TxRead(c)
    \/ \E c \in FrameClients : TxCommit(c)
    \/ \E c \in FrameClients : Retire(c)
    \/ \E m \in ConcurrentReaders, country \in QueryCountries : GetClientConfig(m, country)
    \/ \E m \in ConcurrentReaders : FetchConfiguration(m)
    \/ \E m \in ConcurrentReaders : QueryFails(m)
    \/ \E m \in ConcurrentReaders : StoreConfiguration(m)
    \/ \E m \in ConcurrentReaders : RetireRead(m)

SpecReads == InitReads /\ [][NextReads]_vars

-----------------------------------------------------------------------------
(* Steps of a request, as seen by the properties below *)

\* client c's request gets its response in this step
Finishes(c) == req[c].pc # "done" /\ req'[c].pc = "done"

\* client c's transaction commits its write in this step
Commits(c) == req[c].pc = "commit" /\ req'[c].pc = "done"

Range(seq) == {seq[i] : i \in 1..Len(seq)}

\* the request is turned away before its conflict check: a full update by the
\* duplicate-key pre-check, a country-override request by the code validation,
\* a delete-country-override by the override-existence test
RejectedEarly(r) ==
    \/ r.op = "update" /\ checkParameterKeyExists(r.body.key, r.id) # {}
    \/ r.op = "setOverride"
          /\ ~validateCountryOverrideOperation(r.countryCode, Has(r.body, "value"), "set")
    \/ r.op = "deleteOverride"
          /\ \/ ~validateCountryOverrideOperation(r.countryCode, FALSE, "delete")
             \/ OverrideMissing(store[r.id], ToUpperCase(r.countryCode))

EarlyStatus(r) == IF r.op = "update" THEN "DuplicateKey" ELSE "ValidationError"

-----------------------------------------------------------------------------
(* C1 *)

C1_CountMatches ==
    \A d \in DOMAIN store :
        /\ Has(store[d], "version")
        /\ store[d].version = InitialDocs[d].version + Len(commitLog[d])

C1_Step ==
    /\ \A c \in Clients :
          /\ Commits(c) =>
                store'[req[c].id].version = VersionOf(req[c].snap) + 1
          /\ (Finishes(c) /\ req'[c].resp.status
                                \in {"Conflict", "NotFound", "ValidationError"}) =>
                store' = store
    /\ \A d \in DOMAIN store :
          /\ d \in DOMAIN store'
          /\ store'[d].version \in {store[d].version, store[d].version + 1}

\* C1: every committed mutation stores the version its transaction read plus
\* one, so the stored version of a parameter is its initial version plus the
\* number of mutations committed on it, under every interleaving; a request
\* that ends in Conflict, NotFound or ValidationError leaves the store as it
\* was, and no step lowers a version or raises it by more than one.
C1_VersionMonotone == [](C1_CountMatches) /\ [][C1_Step]_vars

\* two mutations are committed on p1 and a third request ended in Conflict
C1_Witness ==
    /\ Len(commitLog["p1"]) >= 2
    /\ store["p1"].version = 2
    /\ \E c \in Clients : req[c].resp.status = "Conflict"

-----------------------------------------------------------------------------
(* C2 *)

\* a write is committed for a versioned, unforced request only at its version
C2_CommitOnlyAtVersion ==
    \A c \in Clients :
        (Commits(c) /\ HasLkv(req[c].body) /\ ~req[c].body.forceUpdate) =>
            /\ req[c].id \in DOMAIN store
            /\ VersionOf(store[req[c].id]) = req[c].body.lastKnownVersion

\* the request carries a version over which a mutation has been committed
Overtaken(r) ==
    /\ HasLkv(r.body)
    /\ ~r.body.forceUpdate
    /\ r.body.lastKnownVersion \in Range(commitLog[r.id])

C2_OvertakenEndsIn(statuses) ==
    \A c \in Clients :
        (Finishes(c) /\ Overtaken(req'[c])) =>
            /\ req'[c].resp.status \in statuses
            /\ store' = store

\* C2 as stated: a request with lastKnownVersion = v and forceUpdate = false
\* commits only while the stored version is v, and once another mutation has
\* been committed over version v the request ends in Conflict and writes
\* nothing.
C2_Original ==
    [][C2_CommitOnlyAtVersion /\ C2_OvertakenEndsIn({"Conflict"})]_vars

\* C2 (amended): a request with lastKnownVersion = v and forceUpdate = false
\* commits only while the stored version is v; once another mutation has been
\* committed over version v the request is refused and writes nothing: it
\* ends in Conflict, or in DuplicateKey or ValidationError when the duplicate
\* key pre-check or the override-existence test turns it away first.
C2_NoSilentOverwrite ==
    [][C2_CommitOnlyAtVersion
        /\ C2_OvertakenEndsIn({"Conflict", "DuplicateKey", "ValidationError"})]_vars

\* c read version 0, another client committed over it, and c ended in Conflict
C2_Witness ==
    \E c \in Clients :
        /\ req[c].pc = "done"
        /\ Overtaken(req[c])
        /\ req[c].resp.status = "Conflict"
        /\ store[req[c].id].lastUpdatedBy \in Clients \ {c}

-----------------------------------------------------------------------------
(* C3 *)

\* C3: no two committed mutations of one parameter observed the same
\* currentVersion: each commit read the version written by the commit before
\* it, also when the two transactions overlapped.
C3_CommitsSerialized ==
    \A d \in DOMAIN commitLog :
        \A i \in 1..Len(commitLog[d]) :
            commitLog[d][i] = (IF d \in DocIds THEN InitialDocs[d].version ELSE 0) + i - 1

\* two transactions overlapped: both read version 0, one has committed, and
\* the other still holds its buffered write against the document it read
C3_Witness ==
    \E c \in Clients :
        /\ req[c].pc = "commit"
        /\ VersionOf(req[c].snap) = 0
        /\ commitLog[req[c].id] = <<0>>
        /\ store[req[c].id].version = 1
        /\ \E o \in Clients \ {c} : req[o].pc = "done" /\ req[o].stored = 1

-----------------------------------------------------------------------------
(* C4 *)

\* the request meets a stored version other than the one it carries
Mismatch(r) ==
    /\ r.id \in DOMAIN store
    /\ VersionConflict(r.body, VersionOf(store[r.id]))

ReportsConflict(r) ==
    /\ r.resp.status = "Conflict"
    /\ r.resp.details.currentVersion = VersionOf(store[r.id])
    /\ r.resp.details.providedVersion = r.body.lastKnownVersion

\* C4 as stated: every mutating request on an existing parameter whose
\* lastKnownVersion differs from the stored version, forceUpdate false, ends
\* in Conflict reporting the stored and the supplied version, the document
\* unchanged.
C4_Original ==
    [][\A c \in Clients :
          (Finishes(c) /\ Mismatch(req'[c])) =>
              ReportsConflict(req'[c]) /\ store' = store]_vars

\* C4 (amended): such a request leaves the document unchanged and ends in
\* Conflict reporting currentVersion = the stored version and providedVersion
\* = lastKnownVersion, unless it is turned away before the conflict check: a
\* full update whose key another parameter holds ends in DuplicateKey, a
\* delete-country-override whose override-existence test fails ends in
\* ValidationError.
C4_ConflictOrEarlyReject ==
    [][\A c \in Clients :
          (Finishes(c) /\ Mismatch(req'[c])) =>
              /\ store' = store
              /\ IF RejectedEarly(req'[c])
                 THEN req'[c].resp.status = EarlyStatus(req'[c])
                 ELSE ReportsConflict(req'[c])]_vars

\* the parameter is at version 2 and a request carrying version 0 ended in Conflict
C4_Witness ==
    \E c \in Clients :
        /\ req[c].pc = "done"
        /\ req[c].resp.status = "Conflict"
        /\ req[c].resp.details.currentVersion = 2
        /\ req[c].resp.details.providedVersion = 0
        /\ store[req[c].id].version = 2

-----------------------------------------------------------------------------
(* C5 *)

\* the request carries exactly the stored version, unforced, and is neither a
\* full update whose key another parameter holds nor a delete of an override
\* that is not stored
AtStoredVersion(r) ==
    /\ r.id \in DOMAIN store
    /\ HasLkv(r.body)
    /\ r.body.lastKnownVersion = VersionOf(store[r.id])
    /\ ~r.body.forceUpdate
    /\ r.op = "update" => checkParameterKeyExists(r.body.key, r.id) = {}
    /\ r.op = "deleteOverride" => HasOverride(store[r.id], ToUpperCase(r.countryCode))

\* C5: on a parameter stored at version v, a request with lastKnownVersion = v
\* and forceUpdate = false succeeds and leaves the stored version at v + 1
\* (a delete-country-override: when the targeted override is stored; a full
\* update: when its key is free).
C5_MatchingVersionSucceeds ==
    [][\A c \in Clients :
          (Finishes(c) /\ AtStoredVersion(req'[c])) =>
              /\ req'[c].resp.status = "ok"
              /\ store'[req'[c].id].version = req'[c].body.lastKnownVersion + 1]_vars

-----------------------------------------------------------------------------
(* C6 *)

Forced(r) == r.id \in DOMAIN store /\ r.body.forceUpdate

\* the request's write is committed: one version up, the caller recorded
CommitsAs(c) ==
    /\ req'[c].resp.status = "ok"
    /\ store'[req'[c].id].version = VersionOf(store[req'[c].id]) + 1
    /\ store'[req'[c].id].lastUpdatedBy = c

\* C6 as stated: a request with forceUpdate = true on an existing parameter
\* never ends in Conflict, whatever its lastKnownVersion: it commits, stores
\* the stored version plus one and records the caller as lastUpdatedBy.
C6_Original ==
    [][\A c \in Clients : (Finishes(c) /\ Forced(req'[c])) => CommitsAs(c)]_vars

\* C6 (amended): a request with forceUpdate = true on an existing parameter
\* never ends in Conflict, whatever its lastKnownVersion; unless it is turned
\* away with DuplicateKey (a full update whose key another parameter holds) or
\* ValidationError (a delete-country-override whose override-existence test
\* fails), writing nothing, it commits, stores the stored version plus one and
\* records the caller as lastUpdatedBy.
C6_ForceBypassesConflict ==
    [][\A c \in Clients :
          (Finishes(c) /\ Forced(req'[c])) =>
              /\ req'[c].resp.status # "Conflict"
              /\ IF RejectedEarly(req'[c])
                 THEN req'[c].resp.status = EarlyStatus(req'[c]) /\ store' = store
                 ELSE CommitsAs(c)]_vars

\* a forced request carrying version 0 committed version 2 (not 0 + 1)
C6_Witness ==
    \E c \in Clients :
        /\ req[c].pc = "done"
        /\ req[c].resp.status = "ok"
        /\ req[c].body.forceUpdate
        /\ HasLkv(req[c].body)
        /\ req[c].body.lastKnownVersion = 0
        /\ req[c].stored = 2
        /\ store[req[c].id].version = 2
        /\ store[req[c].id].lastUpdatedBy = c

-----------------------------------------------------------------------------
(* C7 *)

Unversioned(r) == r.id \in DOMAIN store /\ ~HasLkv(r.body)

-----------------------------------------------------------------------------
(* C8 *)

\* C8: the newVersion of a success response is the version that request's
\* commit stored.
C8_ReportedIsStored ==
    \A c \in Clients :
        (req[c].pc = "done" /\ req[c].resp.status = "ok") =>
            req[c].resp.newVersion = req[c].stored

-----------------------------------------------------------------------------
(* C9 *)

\* the properties of a document a full update may carry or omit
OptionalProps == {"description", "isActive", "overrides"}

\* C9: a committed full update leaves every property its payload omits
\* (description, isActive, overrides) as stored.
C9_OmittedFieldsKept ==
    [][\A c \in Clients :
          (Commits(c) /\ req[c].op = "update") =>
              \A f \in OptionalProps \ DOMAIN req[c].body :
                  store'[req[c].id][f] = store[req[c].id][f]]_vars

-----------------------------------------------------------------------------
(* C10 *)

StoredCountryMap(doc) == CountryOf(OverridesOf(doc))

\* C10: a committed full update whose payload omits overrides leaves the
\* stored overrides.country map as it was, keys and values.
C10_OverridesPreserved ==
    [][\A c \in Clients :
          (Commits(c) /\ req[c].op = "update" /\ ~Has(req[c].body, "overrides")) =>
              StoredCountryMap(store'[req[c].id]) = StoredCountryMap(store[req[c].id])]_vars

\* a full update without overrides committed on a parameter that holds two
\* country overrides, and both are still stored
C10_Witness ==
    \E c \in Clients :
        /\ req[c].pc = "done"
        /\ req[c].op = "update"
        /\ req[c].resp.status = "ok"
        /\ ~Has(req[c].body, "overrides")
        /\ store[req[c].id].lastUpdatedBy = c
        /\ store[req[c].id].version = req[c].stored
        /\ DOMAIN StoredCountryMap(store[req[c].id]) = {"US", "FR"}

-----------------------------------------------------------------------------
(* Applications of the helper functions *)

CountryValues == {"B", "C", "D"}

\* the country maps over the codes, each code present or absent
CountryMapsOver(values) == UNION {[S -> values] : S \in SUBSET Codes}

\* ParameterOverrides: with or without a country map
OverridesOver(values) == {EmptyObj} \cup {[country |-> m] : m \in CountryMapsOver(values)}

\* the country argument: absent, or a code in upper or lower case
Locales == {"", "US", "us", "FR", "fr"}

\* ParameterData as resolveParameterValue reads it
ResolvableParameters ==
    {[key |-> "k1", value |-> "A"]}
        \cup {[key |-> "k1", value |-> "A", overrides |-> o] :
                    o \in OverridesOver({"B", "false"})}

HelperCalls ==
    {[fn |-> "mergeOverrides", pc |-> "called",
      args |-> [existingOverrides |-> e, newOverrides |-> n, operation |-> o]] :
        e \in OverridesOver(CountryValues), n \in OverridesOver(CountryValues),
        o \in {"merge", "replace"}}
    \cup
    {[fn |-> "resolveParameterValue", pc |-> "called",
      args |-> [parameterData |-> p, country |-> l]] :
        p \in ResolvableParameters, l \in Locales}

InitHelpers ==
    /\ AdminSideAtStartup
    /\ ReadSideAtStartup(TRUE)
    /\ call \in HelperCalls

Returns(result) == call' = [call EXCEPT !.pc = "returned"] @@ [result |-> result]

ApplyMergeOverrides ==
    /\ call.fn = "mergeOverrides"
    /\ call.pc = "called"
    /\ Returns(mergeOverrides(call.args.existingOverrides, call.args.newOverrides,
                              call.args.operation))
    /\ UNCHANGED <<store, clock, req, commitLog, past, cache, backendUp, isConnected,
                   reads, cacheOp>>

ApplyResolveParameterValue ==
    /\ call.fn = "resolveParameterValue"
    /\ call.pc = "called"
    /\ Returns(resolveParameterValue(call.args.parameterData, call.args.country))
    /\ UNCHANGED <<store, clock, req, commitLog, past, cache, backendUp, isConnected,
                   reads, cacheOp>>

NextHelpers ==
    \/ ApplyMergeOverrides
    \/ ApplyResolveParameterValue

SpecHelpers == InitHelpers /\ [][NextHelpers]_vars

-----------------------------------------------------------------------------
(* C11 *)

Returned(fn) == call.fn = fn /\ call.pc = "returned"

\* C11: mergeOverrides in merge mode returns a country map that holds, for
\* every code of the incoming country map, the incoming value and, for every
\* other code of the existing country map, the existing value, and no other
\* code; in replace mode it returns the incoming overrides.
C11_MergeOverrides ==
    Returned("mergeOverrides") =>
        LET existing == CountryOf(call.args.existingOverrides)
            incoming == CountryOf(call.args.newOverrides)
            merged == CountryOf(call.result)
        IN  IF call.args.operation = "replace"
            THEN call.result = call.args.newOverrides
            ELSE /\ DOMAIN merged = DOMAIN existing \cup DOMAIN incoming
                 /\ \A code \in DOMAIN incoming : merged[code] = incoming[code]
                 /\ \A code \in DOMAIN existing \ DOMAIN incoming :
                        merged[code] = existing[code]

\* {US: B, FR: C} merged with {US: D} has given {US: D, FR: C}
C11_Witness ==
    /\ Returned("mergeOverrides")
    /\ call.args.operation = "merge"
    /\ call.args.existingOverrides = [country |-> [US |-> "B", FR |-> "C"]]
    /\ call.args.newOverrides = [country |-> [US |-> "D"]]
    /\ call.result = [country |-> [US |-> "D", FR |-> "C"]]

-----------------------------------------------------------------------------
(* C12 *)

\* the spellings of each country code the callers use
Spellings == [US |-> {"US", "us"}, FR |-> {"FR", "fr"}]

\* C12: resolveParameterValue returns the country override stored under the
\* upper-case code of the country given, in whatever letter case it is given,
\* when that override is defined, and the parameter's value in every other
\* case: no country given, or no override stored for that code.
C12_Resolve ==
    Returned("resolveParameterValue") =>
        LET p == call.args.parameterData
            country == CountryOf(OverridesOf(p))
            stored == {code \in DOMAIN country : call.args.country \in Spellings[code]}
        IN  /\ \A code \in stored : call.result = country[code]
            /\ stored = {} => call.result = p.value

\* the override stored under US is returned for the country "us", a falsy
\* override included
C12_Witness ==
    /\ Returned("resolveParameterValue")
    /\ call.args.country = "us"
    /\ HasOverride(call.args.parameterData, "US")
    /\ call.args.parameterData.overrides.country["US"] = "false"
    /\ call.result = "false"

-----------------------------------------------------------------------------
(* C13 *)

\* the properties a country-override mutation leaves alone
FrameProps == {"key", "value", "description", "isActive", "createdAt"}

SameProp(before, after, f) ==
    /\ Has(before, f) <=> Has(after, f)
    /\ Has(before, f) => after[f] = before[f]

\* everything but the override of `code` is as it was
OnlyCodeChanged(before, after, code) ==
    /\ \A f \in FrameProps : SameProp(before, after, f)
    /\ \A other \in Codes \ {code} :
          SameProp(StoredCountryMap(before), StoredCountryMap(after), other)

\* C13: a committed set-country-override stores the value under the upper-case
\* code, so that the parameter resolves to it for that country; a committed
\* delete-country-override removes that code, so that the parameter resolves
\* to its default value; both leave key, value, description, isActive,
\* createdAt and the override of every other country code as they were.
C13_SingleKeyMutation ==
    [][\A c \in Clients :
          (Commits(c) /\ req[c].op \in {"setOverride", "deleteOverride"}) =>
              LET before == store[req[c].id]
                  after == store'[req[c].id]
                  code == ToUpperCase(req[c].countryCode)
              IN  /\ OnlyCodeChanged(before, after, code)
                  /\ IF req[c].op = "setOverride"
                     THEN /\ HasOverride(after, code)
                          /\ after.overrides.country[code] = req[c].body.value
                          /\ resolveParameterValue(after, req[c].countryCode)
                                = req[c].body.value
                     ELSE /\ ~HasOverride(after, code)
                          /\ resolveParameterValue(after, req[c].countryCode)
                                = after.value]_vars

\* the override of US was deleted from a parameter that also holds an override
\* of FR, set before, and FR is still stored
C13_Witness ==
    \E c \in Clients :
        /\ req[c].pc = "done"
        /\ req[c].op = "deleteOverride"
        /\ req[c].countryCode = "US"
        /\ req[c].resp.status = "ok"
        /\ DOMAIN StoredCountryMap(store[req[c].id]) = {"FR"}
        /\ store[req[c].id].version = 2

-----------------------------------------------------------------------------
(* C14 *)

\* the delete-country-override request names a code the stored parameter
\* holds no override for
DeletesAbsentOverride(r) ==
    /\ r.op = "deleteOverride"
    /\ r.id \in DOMAIN store
    /\ ~HasOverride(store[r.id], ToUpperCase(r.countryCode))

\* C14: a delete-country-override request for a country code the stored
\* parameter holds no override for ends in ValidationError, whatever version
\* it carries, and leaves the store as it was: no version is consumed.
C14_AbsentOverrideRejected ==
    [][\A c \in Clients :
          (Finishes(c) /\ DeletesAbsentOverride(req'[c])) =>
              /\ req'[c].resp.status = "ValidationError"
              /\ store' = store]_vars

\* the override of US was deleted at version 1, and a second delete of US,
\* forced, ended in ValidationError with the parameter still at version 1
C14_Witness ==
    \E c \in Clients :
        /\ req[c].pc = "done"
        /\ DeletesAbsentOverride(req[c])
        /\ req[c].countryCode = "US"
        /\ req[c].body.forceUpdate
        /\ req[c].resp.status = "ValidationError"
        /\ store[req[c].id].version = 1
        /\ Len(commitLog[req[c].id]) = 1

-----------------------------------------------------------------------------
(* C15 *)

TargetsMissing(r) == r.op # "none" /\ r.id \notin DOMAIN store

\* C15 as stated: a full update, set-country-override or
\* delete-country-override that targets an id with no stored document fails
\* with NotFound and creates no document.
C15_Original ==
    [][\A c \in Clients :
          (Finishes(c) /\ TargetsMissing(req'[c])) =>
              /\ req'[c].resp.status = "NotFound"
              /\ store' = store]_vars

\* C15 (amended): a mutating request, its country code well-formed, that
\* targets an id with no stored document creates no document and fails: with
\* DuplicateKey when it is a full update whose key a stored parameter holds,
\* with NotFound otherwise.
C15_MissingTargetFails ==
    [][\A c \in Clients :
          (Finishes(c) /\ TargetsMissing(req'[c])) =>
              /\ store' = store
              /\ req'[c].resp.status =
                    IF /\ req'[c].op = "update"
                       /\ checkParameterKeyExists(req'[c].body.key, req'[c].id) # {}
                    THEN "DuplicateKey" ELSE "NotFound"]_vars

\* a full update of the missing id, carrying the key k1 that p1 gave up, ended
\* in NotFound
C15_Witness ==
    \E c \in Clients :
        /\ req[c].pc = "done"
        /\ req[c].op = "update"
        /\ req[c].id = MissingId
        /\ req[c].body.key = "k1"
        /\ req[c].resp.status = "NotFound"
        /\ MissingId \notin DOMAIN store
        /\ store["p1"].key = "k3"

-----------------------------------------------------------------------------
(* C16 *)

ScalarFields == {"key", "value", "description", "isActive"}

\* C16: when a full update ends in Conflict, a field among key, value,
\* description and isActive is listed in conflictingFields exactly when the
\* payload carries it with a value other than the stored one; a field the
\* payload omits is not listed.
C16_ConflictingScalars ==
    [][\A c \in Clients :
          (Finishes(c) /\ req'[c].op = "update" /\ req'[c].resp.status = "Conflict") =>
              \A f \in ScalarFields :
                  f \in Range(req'[c].resp.details.conflictingFields)
                      <=> /\ Has(req'[c].body, f)
                          /\ req'[c].body[f] # store[req'[c].id][f]]_vars

\* an update carrying another key and another value, and no description or
\* isActive, met a parameter whose description and isActive had been changed:
\* key and value are listed, description and isActive are not
C16_Witness ==
    \E c \in Clients :
        /\ req[c].pc = "done"
        /\ req[c].op = "update"
        /\ req[c].resp.status = "Conflict"
        /\ DOMAIN req[c].body \cap ScalarFields = {"key", "value"}
        /\ store[req[c].id].description = "d1"
        /\ store[req[c].id].isActive = FALSE
        /\ req[c].resp.details.conflictingFields = <<"key", "value">>

-----------------------------------------------------------------------------
(* C19 *)

GuardedOps == {"get", "set", "delete", "invalidatePattern"}

\* what each guarded operation returns when the backend fails
FailureValue ==
    [get |-> NullValue, set |-> [void |-> TRUE], delete |-> [deleted |-> FALSE],
     invalidatePattern |-> [count |-> 0]]

C19_NothingThrown ==
    cacheOp.op \in GuardedOps =>
        /\ ~cacheOp.threw
        /\ cacheOp.failed => cacheOp.value = FailureValue[cacheOp.op]

\* a guarded call made while the backend fails
FailedCallStep ==
    /\ cacheOp' # cacheOp
    /\ cacheOp'.op \in GuardedOps
    /\ cacheOp'.failed

\* C19: get, set, delete and invalidatePattern never throw: when the backend
\* fails, the connection attempt included, get returns null, set returns
\* without writing, delete returns false without deleting and
\* invalidatePattern returns 0, and the cache contents are as they were.
C19_CacheErrorsContained ==
    [](C19_NothingThrown) /\ [][FailedCallStep => cache' = cache]_vars

\* invalidatePattern returned 0 on a failing backend that holds two entries
\* matching the pattern
C19_Witness ==
    /\ cacheOp.op = "invalidatePattern"
    /\ cacheOp.arg = "acme:config:client:*"
    /\ cacheOp.failed
    /\ ~backendUp
    /\ cacheOp.value = [count |-> 0]
    /\ {CLIENT_CONFIG(""), CLIENT_CONFIG("US")} \subseteq DOMAIN cache

-----------------------------------------------------------------------------
(* Steps of a client-configuration read *)

\* reader m's read asks the cache in this step
AsksCache(m) == reads[m].pc = "idle" /\ reads'[m].pc # "idle"

\* reader m's read queries the store in this step
QueriesStore(m) == reads[m].pc = "fetch" /\ reads'[m].pc # "fetch"

\* reader m's read writes to the cache in this step
WritesCache(m) == reads[m].pc = "set" /\ reads'[m].pc # "set"

\* reader m's read gets its response in this step
Answers(m) == reads[m].pc # "done" /\ reads'[m].pc = "done"

\* the stored parameters with isActive = true
ActiveParameters == {d \in DOMAIN store : store[d].isActive = TRUE}

\* the flat map key -> value for the country, over the active parameters
ExpectedSnapshot(country) ==
    [k \in {store[d].key : d \in ActiveParameters} |->
        LET d == CHOOSE d \in ActiveParameters : store[d].key = k
            overrides == StoredCountryMap(store[d])
        IN  IF country # "" /\ country \in DOMAIN overrides
            THEN overrides[country] ELSE store[d].value]

-----------------------------------------------------------------------------
(* C17 *)

\* C17: the snapshot a client-configuration read computes from the store for
\* a country is the flat map from the key of each stored parameter with
\* isActive = true to that parameter's override for the country when one is
\* defined and to its default value otherwise: the key of an inactive
\* parameter is not in it.
C17_SnapshotOfActive ==
    [][\A m \in Readers :
          QueriesStore(m) => reads'[m].data = ExpectedSnapshot(reads[m].country)]_vars

\* p1 was made inactive; the snapshot computed for US holds p2's override
\* under k2 and no k1
C17_Witness ==
    \E m \in Readers :
        /\ reads[m].queried
        /\ reads[m].country = "US"
        /\ store["p1"].isActive = FALSE
        /\ store["p2"].isActive = TRUE
        /\ reads[m].data = [k2 |-> "B"]
        /\ reads[m].data = ExpectedSnapshot("US")

-----------------------------------------------------------------------------
(* C18 *)

\* C18: a client-configuration read during which every call on the cache
\* backend fails is not answered from the cache: it queries the store,
\* computes the snapshot of the stored parameters for its country, and is
\* answered 200 with that snapshot, the cache left as it was.
C18_ReadSurvivesCacheFailure ==
    [][\A m \in Readers :
          /\ (AsksCache(m) /\ ~backendUp) =>
                /\ reads'[m].pc = "fetch"
                /\ cache' = cache
          /\ (QueriesStore(m) /\ reads[m].getFailed) =>
                reads'[m].data = ExpectedSnapshot(reads[m].country)
          /\ (WritesCache(m) /\ reads[m].getFailed /\ ~backendUp) =>
                /\ Answers(m)
                /\ reads'[m].resp = [status |-> 200, body |-> reads[m].data]
                /\ reads[m].queried
                /\ cache' = cache]_vars

\* with the backend down at the cache read and at the cache write, a read
\* made after p1 was mutated was answered with the snapshot of the store
C18_Witness ==
    \E m \in Readers :
        /\ reads[m].pc = "done"
        /\ reads[m].getFailed
        /\ reads[m].setFailed
        /\ ~backendUp
        /\ store["p1"].version >= 1
        /\ reads[m].resp = [status |-> 200, body |-> ExpectedSnapshot(reads[m].country)]
        /\ "k1" \in DOMAIN reads[m].resp.body
        /\ reads[m].cacheKey \notin DOMAIN cache

-----------------------------------------------------------------------------
(* C20 *)

\* C20: a client-configuration read whose cache key holds an entry is
\* answered with the cached snapshot and does not query the store; a read
\* whose key holds none computes the snapshot from the store, writes it under
\* that key with a time to live of 300 seconds, no other key touched, and is
\* answered with it.
C20_GetOrCompute ==
    [][\A m \in Readers :
          LET key == reads'[m].cacheKey IN
          /\ (AsksCache(m) /\ backendUp /\ key \in DOMAIN cache) =>
                /\ Answers(m)
                /\ reads'[m].resp = [status |-> 200, body |-> JSONParse(cache[key].data)]
                /\ ~reads'[m].queried
                /\ cache' = cache
          /\ (AsksCache(m) /\ backendUp /\ key \notin DOMAIN cache) =>
                reads'[m].pc = "fetch"
          /\ QueriesStore(m) =>
                reads'[m].data = ExpectedSnapshot(reads[m].country)
          /\ (WritesCache(m) /\ backendUp) =>
                /\ Answers(m)
                /\ reads'[m].resp = [status |-> 200, body |-> reads[m].data]
                /\ key \in DOMAIN cache'
                /\ cache'[key] = [data |-> JSONStringify(reads[m].data), ttl |-> 300]
                /\ \A other \in DOMAIN cache \ {key} :
                      other \in DOMAIN cache' /\ cache'[other] = cache[other]
                /\ DOMAIN cache' \subseteq DOMAIN cache \cup {key}]_vars

\* a read was answered from an entry written, with 300 seconds to live, by an
\* earlier read: the store was not queried, and the answer is the snapshot as
\* cached, which the store has moved on from
C20_Witness ==
    \E m \in Readers :
        /\ reads[m].pc = "done"
        /\ reads[m].hit
        /\ ~reads[m].queried
        /\ reads[m].cacheKey \in DOMAIN cache
        /\ cache[reads[m].cacheKey].ttl = 300
        /\ reads[m].resp = [status |-> 200,
                            body |-> JSONParse(cache[reads[m].cacheKey].data)]
        /\ reads[m].resp.body # ExpectedSnapshot(reads[m].country)

-----------------------------------------------------------------------------
(* C21 *)

\* no mutating request is in flight: every committed mutation has answered
NoMutationInFlight == \A c \in FrameClients : req[c].pc \in {"idle", "done"}

\* C21: a mutating request that commits leaves no client-configuration entry
\* in the cache, and a client-configuration read issued while no mutating
\* request is in flight is answered with the snapshot of the store as the
\* committed mutations left it.
C21_MutationInvalidates ==
    [][/\ \A c \in FrameClients :
             Commits(c) => \A key \in ClientConfigKeys : key \notin DOMAIN cache'
       /\ \A m \in Readers :
             (AsksCache(m) /\ Answers(m) /\ NoMutationInFlight) =>
                reads'[m].resp.body = ExpectedSnapshot(reads'[m].country)]_vars

-----------------------------------------------------------------------------
(* C22 *)

\* the store as it was when tick t of the wall clock began
StoreAt(t) == IF t = 0 THEN InitialDocs ELSE past[t]

\* every mutation committed so far was committed before tick Now - TicksPerTTL
\* began, that is more than 5 minutes before any instant of the current tick
\* (a commit changes the version of its document, so an equal store means no
\* commit since)
AllCommitsOlderThanTTL == Now >= TicksPerTTL /\ StoreAt(Now - TicksPerTTL) = store

\* C22: a client-configuration read issued when every mutation was committed
\* more than 5 minutes (TicksPerTTL ticks) earlier is answered with the
\* snapshot of the store: it misses none of these mutations.
C22_StalenessBounded ==
    [][\A m \in Readers :
          (AsksCache(m) /\ Answers(m) /\ AllCommitsOlderThanTTL) =>
             reads'[m].resp.body = ExpectedSnapshot(reads'[m].country)]_vars

-----------------------------------------------------------------------------
(* C23 *)

\* the store transaction of client c's request is running
TransactionRunning(c) == req[c].pc \in {"tx", "commit", "race"}

\* C23: while the store transaction of a mutating request (full update, set
\* or delete country override, delete parameter) is running, the timer of the
\* transaction timeout can fire and end the request with TransactionTimeout.
C23_TransactionsRaceTimeout ==
    \A c \in FrameClients : TransactionRunning(c) => ENABLED TimerFires(c)

-----------------------------------------------------------------------------
(* C24 *)

\* client c's request has been answered with TransactionTimeout
ReportedTimeout(c) == req[c].resp.status = "TransactionTimeout"

\* C24: a request reported to its caller as TransactionTimeout has written
\* nothing, and nothing is written for it afterwards: from the report on the
\* store stays as it is (one administrator, no other request in flight).
C24_TimeoutWritesNothing ==
    [][\A c \in FrameClients : ReportedTimeout(c) => store' = store]_vars

-----------------------------------------------------------------------------
(* C25 *)

\* client c's request arrives in this step
Arrives(c) == req[c].pc = "idle" /\ req'[c].pc # "idle"

\* C25: a set-country-override or delete-country-override request whose
\* country code is not exactly two upper-case letters is answered with
\* ValidationError on arrival, before any transaction, and the store is left
\* as it is.
C25_MalformedCodeRejected ==
    [][\A c \in FrameClients :
          (/\ Arrives(c)
           /\ req'[c].op \in {"setOverride", "deleteOverride"}
           /\ ~IsTwoUpper(req'[c].countryCode)) =>
             /\ req'[c].pc = "done"
             /\ req'[c].resp.status = "ValidationError"
             /\ store' = store]_vars

-----------------------------------------------------------------------------
(* C26 *)

\* C26: in every reachable state, every key of the overrides.country map of
\* every stored parameter is two upper-case letters, whatever create, full
\* update, set-country-override and delete-country-override requests were
\* sent, with lower-case codes in their bodies and paths.
C26_CountryKeysUpperCase ==
    \A d \in DOMAIN store :
        \A code \in DOMAIN StoredCountryMap(store[d]) : IsTwoUpper(code)

\* an override was set with the code sent as "us", and a parameter was
\* created from a body whose country map was sent with the keys US and fr:
\* the first is stored under US, the second with the key US alone
C26_Witness ==
    /\ \E c \in FrameClients :
          /\ req[c].pc = "done"
          /\ req[c].op = "setOverride"
          /\ req[c].countryCode = "us"
          /\ req[c].resp.status = "ok"
          /\ store[req[c].id].version > 0
          /\ DOMAIN StoredCountryMap(store[req[c].id]) = {"US"}
    /\ \E d \in DOMAIN store \ DocIds :
          StoredCountryMap(store[d]) = ("US" :> "C")

-----------------------------------------------------------------------------
(* C27 *)

Resolved == call.fn = "resolveUserIdToEmail"

\* the call was answered from the cache
IdentityCached == call.cached # <<>>

\* getUser gave an email: at fetchFn's first run, or at the second run that
\* follows a first run that threw
LookupGaveEmail ==
    \/ call.lookups[1] = "email"
    \/ call.lookups[1] = "throws" /\ call.lookups[2] = "email"

\* getUser threw each time fetchFn ran
LookupFailed == call.lookups[1] = "throws" /\ call.lookups[2] = "throws"

\* C27 as stated: the call does not throw, returns the email when the lookup
\* succeeds, and returns the uid itself when the lookup or the cache fails.
C27_Original ==
    (Resolved /\ call.uid # "") =>
        /\ ~call.threw
        /\ (~IdentityCached /\ LookupGaveEmail) => call.result = EmailOf(call.uid)
        /\ (call.cacheFailed \/ (~IdentityCached /\ LookupFailed)) =>
              call.result = call.uid

\* C27: resolveUserIdToEmail never throws. For an empty uid it returns
\* "unknown"; otherwise it returns the cached value when the cache answers
\* with one, the email when the cache has none or fails and getUser gives an
\* email, and the uid itself when getUser fails or the user has no email.
\* Every value it returns is one the Conflict outcome reports as
\* lastModifiedBy.
C27_ResolutionNeverFails ==
    Resolved =>
        /\ ~call.threw
        /\ call.result \in resolveUserIdToEmail(call.uid)
        /\ call.uid = "" => call.result = "unknown"
        /\ call.uid # "" =>
              call.result = IF IdentityCached THEN call.cached[1]
                            ELSE IF LookupGaveEmail THEN EmailOf(call.uid)
                            ELSE call.uid

\* both ends of the claim's case: with the cache backend down and getUser
\* throwing twice the uid came back, and the call did not throw
C27_Witness ==
    /\ Resolved
    /\ call.uid = "u0"
    /\ call.cacheFailed
    /\ LookupFailed
    /\ ~call.threw
    /\ call.result = "u0"

-----------------------------------------------------------------------------
(* C28 *)

\* a stored parameter other than the request's own target holds the key the
\* request carries (a create request has no target)
KeyHeldByAnother(r) ==
    \E d \in DOMAIN store :
        /\ r.op = "update" => d # r.id
        /\ store[d].key = r.body.key

\* C28: a create request, or a full update, that arrives while another
\* stored parameter holds its key is answered with DuplicateKey at once: it
\* starts no write, and the store is left as it is.
C28_DuplicateKeyRejected ==
    [][\A c \in Clients :
          (/\ Arrives(c)
           /\ req'[c].op \in {"create", "update"}
           /\ KeyHeldByAnother(req'[c])) =>
             /\ req'[c].pc = "done"
             /\ req'[c].resp = [status |-> "DuplicateKey"]
             /\ req'[c].write = EmptyObj
             /\ req'[c].stored = -1
             /\ store' = store]_vars

\* a create with key k1 and a full update of p2 to key k1 were both turned
\* away while p1 holds k1; the store is as it started
C28_Witness ==
    /\ \E c \in Clients :
          /\ req[c].pc = "done"
          /\ req[c].op = "create"
          /\ req[c].body.key = "k1"
          /\ req[c].resp.status = "DuplicateKey"
    /\ \E c \in Clients :
          /\ req[c].pc = "done"
          /\ req[c].op = "update"
          /\ req[c].id = "p2"
          /\ req[c].body.key = "k1"
          /\ req[c].resp.status = "DuplicateKey"
    /\ store = InitialDocs

-----------------------------------------------------------------------------
(* C29 *)

\* C29: with one administrator, whose requests follow one another (the
\* pre-check and the write of a create or key-changing update have no other
\* request between them), no two stored parameters hold the same key.
C29_KeysUnique ==
    \A d1 \in DOMAIN store, d2 \in DOMAIN store :
        store[d1].key = store[d2].key => d1 = d2

\* p1 was moved to key k3, and after that a parameter was created with the
\* key k1 that p1 gave up
C29_Witness ==
    /\ "p1" \in DOMAIN store
    /\ store["p1"].key = "k3"
    /\ \E d \in DOMAIN store \ DocIds : store[d].key = "k1"

-----------------------------------------------------------------------------
(* C30 *)

\* client c's create request writes its document in this step
Creates(c) == req[c].op = "create" /\ req[c].pc = "add" /\ req'[c].pc = "done"

\* C30: the write of a create request that passed the pre-check is not
\* conditional on the key: the document is added under a new id with the key
\* of the request, whatever keys the stored parameters hold by then, and the
\* request answers 201.
C30_WriteIgnoresKeys ==
    [][\A c \in Clients :
          Creates(c) =>
             /\ req'[c].resp.status = "created"
             /\ req'[c].id \notin DOMAIN store
             /\ req'[c].id \in DOMAIN store'
             /\ store'[req'[c].id].key = req[c].body.key
             /\ \A d \in DOMAIN store : d \in DOMAIN store' /\ store'[d] = store[d]]_vars

\* two concurrent create requests with key k3 both passed the pre-check and
\* both answered 201: two stored documents hold k3
C30_Witness ==
    \E c1 \in Clients, c2 \in Clients :
        /\ c1 # c2
        /\ \A c \in {c1, c2} :
              /\ req[c].pc = "done"
              /\ req[c].op = "create"
              /\ req[c].body.key = "k3"
              /\ req[c].resp.status = "created"
              /\ req[c].id \in DOMAIN store
              /\ store[req[c].id].key = "k3"
        /\ req[c1].id # req[c2].id

-----------------------------------------------------------------------------
(* C33 *)

Occurrences(seq, x) == Cardinality({i \in 1..Len(seq) : seq[i] = x})

\* the caller's payload carries an override for the code whose value is not
\* the stored one (no stored override for the code included)
SuppliedOverrideDiffers(body, existingData, code) ==
    /\ Has(CountryOf(OverridesOf(body)), code)
    /\ \/ ~HasOverride(existingData, code)
       \/ CountryOf(OverridesOf(body))[code] # existingData.overrides.country[code]

\* C33: a full update that ends in Conflict lists overrides.country.<CODE>
\* in conflictingFields exactly once for every country code whose supplied
\* override value differs from the stored one, and for no other code.
C33_OverridePathsOnce ==
    [][\A c \in Clients :
          (Finishes(c) /\ req'[c].op = "update" /\ req'[c].resp.status = "Conflict") =>
              \A code \in Codes :
                  Occurrences(req'[c].resp.details.conflictingFields,
                              "overrides.country." \o code)
                    = IF SuppliedOverrideDiffers(req'[c].body, store[req'[c].id], code)
                      THEN 1 ELSE 0]_vars

-----------------------------------------------------------------------------
(* C34 *)

\* C34: a set-country-override request that ends in Conflict lists
\* overrides.country.<CODE> in conflictingFields when the caller's value
\* differs from the value stored for the code, and lists nothing when the
\* caller's value is the stored override.
C34_SetConflictListsDifference ==
    [][\A c \in Clients :
          (Finishes(c) /\ req'[c].op = "setOverride"
                       /\ req'[c].resp.status = "Conflict") =>
              LET r == req'[c]
                  code == ToUpperCase(r.countryCode)
                  existingData == store[r.id]
              IN  r.resp.details.conflictingFields
                    = IF HasOverride(existingData, code)
                         /\ existingData.overrides.country[code] = r.body.value
                      THEN <<>>
                      ELSE <<"overrides.country." \o code>>]_vars

-----------------------------------------------------------------------------
(* C37 *)

\* C37: a delete-country-override request with a well-formed code on a stored
\* parameter ends in ValidationError only when the code is no key of the
\* stored country map, whatever value is stored under it (false included);
\* when it commits, the key is removed and the version is the stored one plus
\* one.
C37_DeleteAnyStoredValue ==
    [][\A c \in Clients :
          LET r == req'[c]
              code == ToUpperCase(r.countryCode)
          IN  /\ (Finishes(c) /\ r.op = "deleteOverride" /\ r.id \in DOMAIN store
                    /\ validateCountryOverrideOperation(r.countryCode, FALSE, "delete")) =>
                    (r.resp.status = "ValidationError" <=> ~HasOverride(store[r.id], code))
              /\ (Commits(c) /\ r.op = "deleteOverride") =>
                    /\ ~HasOverride(store'[r.id], code)
                    /\ store'[r.id].version = VersionOf(store[r.id]) + 1]_vars

-----------------------------------------------------------------------------
(* C35 *)

\* some client's transaction commits in this step
SomeCommit == \E c \in Clients : Commits(c)

\* C35: a commit by caller u stores lastUpdatedBy = u and updatedAt = the
\* time of that commit, and no other step changes a stored document, so the
\* stored editor and time are those of the most recent commit; a Conflict
\* reports as lastModifiedBy the identity resolved from the stored editor and
\* as lastModifiedAt the stored time.
C35_EditorAndTimeOfLastCommit ==
    [][/\ \A c \in Clients :
            /\ Commits(c) =>
                  /\ store'[req[c].id].lastUpdatedBy = c
                  /\ store'[req[c].id].updatedAt = clock'
                  /\ clock' > clock
                  /\ \A d \in DOMAIN store \ {req[c].id} : store'[d] = store[d]
            /\ (Finishes(c) /\ req'[c].resp.status = "Conflict") =>
                  /\ req'[c].resp.details.lastModifiedBy
                        \in resolveUserIdToEmail(store[req'[c].id].lastUpdatedBy)
                  /\ req'[c].resp.details.lastModifiedAt = store[req'[c].id].updatedAt
       /\ ~SomeCommit => store' = store]_vars

\* u1 committed the latest mutation of p1 at time 2, after one by u2, and a
\* request of u2 then ended in Conflict naming u1 and time 2
C35_Witness ==
    /\ store["p1"].lastUpdatedBy = "u1"
    /\ store["p1"].updatedAt = 2
    /\ Len(commitLog["p1"]) = 2
    /\ req["u2"].pc = "done"
    /\ req["u2"].id = "p1"
    /\ req["u2"].resp.status = "Conflict"
    /\ req["u2"].resp.details.lastModifiedBy = EmailOf("u1")
    /\ req["u2"].resp.details.lastModifiedAt = 2

-----------------------------------------------------------------------------
(* C31 *)

\* client c's creation adds its document in this step
Adds(c) == req[c].pc = "add" /\ req'[c].resp.status = "created"

\* the document was created by a request and no mutation was committed on it
FreshlyCreated(id) ==
    /\ id \in Range(NewIdOrder)
    /\ id \in DOMAIN store
    /\ commitLog[id] = <<>>

\* C31: a created parameter is stored under a new id with version 0, with
\* isActive as supplied or true when the request supplies none, and with the
\* overrides supplied or an empty map when the request supplies none; the
\* first mutation committed on it stores version 1.
C31_CreatedAtVersionZero ==
    [][\A c \in Clients :
          /\ Adds(c) =>
                LET doc == store'[req'[c].id]
                    body == req[c].body
                IN  /\ req'[c].id \notin DOMAIN store
                    /\ doc.version = 0
                    /\ doc.isActive = IF Has(body, "isActive") THEN body.isActive ELSE TRUE
                    /\ doc.overrides = IF Has(body, "overrides") THEN body.overrides
                                       ELSE EmptyObj
          /\ (Commits(c) /\ FreshlyCreated(req[c].id)) =>
                store'[req[c].id].version = 1]_vars

\* n1 was created without isActive and overrides, and the first mutation on
\* it, a country override for FR, is committed: version 1
C31_Witness ==
    /\ "n1" \in DOMAIN store
    /\ commitLog["n1"] = <<0>>
    /\ store["n1"].version = 1
    /\ store["n1"].isActive = TRUE
    /\ store["n1"].overrides = [country |-> ("FR" :> "C")]
    /\ req["u1"].pc = "done"
    /\ req["u1"].op = "setOverride"
    /\ req["u1"].resp.status = "ok"

-----------------------------------------------------------------------------
(* C32 *)

\* the parameter was stored and a delete removed its document
WasDeleted(id) == id \in DOMAIN LegacyDocs /\ id \notin DOMAIN store

\* client c's request is answered in this step by one of the handlers that
\* read the document: the arrival of a request, or an attempt of a transaction
AnswersAfterLookup(c) == Finishes(c) /\ req[c].pc \in {"idle", "tx"}

\* a delete removes the document whatever version is stored and checks no
\* lastKnownVersion; a delete of an id with no document ends in NotFound
DeleteRemoves ==
    \A c \in Clients :
        /\ (req[c].pc = "race" /\ req'[c].resp.status = "ok") =>
              /\ req[c].id \notin DOMAIN store'
              /\ \A d \in DOMAIN store \ {req[c].id} :
                    d \in DOMAIN store' /\ store'[d] = store[d]
        /\ (Finishes(c) /\ req'[c].op = "deleteParameter") =>
              /\ req'[c].resp.status \in {"ok", "NotFound", "TransactionTimeout"}
              /\ (req[c].pc = "idle" <=> req'[c].resp.status = "NotFound")
              /\ req[c].pc = "idle" => req'[c].id \notin DOMAIN store

\* C32 as stated: a delete removes the document whatever its version, a
\* delete of an id with no stored document ends in NotFound, and once a
\* parameter is deleted every mutating request on its id ends in NotFound.
C32_Original ==
    [][/\ DeleteRemoves
       /\ \A c \in Clients :
            (AnswersAfterLookup(c) /\ WasDeleted(req'[c].id)) =>
                req'[c].resp.status = "NotFound"]_vars

\* C32 (amended): the same, except that a full update on the deleted id whose
\* key is held by a stored parameter ends in DuplicateKey, because the
\* duplicate-key pre-check runs before the document is read; in both cases no
\* document is written.
C32_DeletedStaysGone ==
    [][/\ DeleteRemoves
       /\ \A c \in Clients :
            (AnswersAfterLookup(c) /\ WasDeleted(req'[c].id)) =>
                /\ req'[c].resp.status =
                      IF req'[c].op = "update"
                         /\ checkParameterKeyExists(req'[c].body.key, req'[c].id) # {}
                      THEN "DuplicateKey" ELSE "NotFound"
                /\ store' = store]_vars

\* p1 was deleted at version 1 and a later country-override request on it
\* ended in NotFound
C32_Witness ==
    /\ WasDeleted("p1")
    /\ commitLog["p1"] = <<0>>
    /\ req["u1"].pc = "done"
    /\ req["u1"].id = "p1"
    /\ req["u1"].op = "setOverride"
    /\ req["u1"].resp.status = "NotFound"

-----------------------------------------------------------------------------
(* C36 *)

\* the request targets a stored document that has no version field
OnLegacy(r) == r.id \in DOMAIN store /\ ~Has(store[r.id], "version")

\* the request carries a lastKnownVersion other than 0 and does not force
CarriesOtherVersion(r) ==
    /\ HasLkv(r.body)
    /\ r.body.lastKnownVersion # 0
    /\ ~r.body.forceUpdate

ReportsConflictAtZero(r) ==
    /\ r.resp.status = "Conflict"
    /\ r.resp.details.currentVersion = 0
    /\ r.resp.details.providedVersion = r.body.lastKnownVersion

\* a request with lastKnownVersion = 0 is not answered Conflict, and a
\* committed mutation stores version 1
LegacyPassesAtZero(c) ==
    /\ (req[c].pc = "tx" /\ req'[c].pc # "tx" /\ OnLegacy(req'[c])
          /\ HasLkv(req'[c].body) /\ req'[c].body.lastKnownVersion = 0) =>
            req'[c].resp.status # "Conflict"
    /\ (Commits(c) /\ OnLegacy(req[c])) =>
            /\ store'[req[c].id].version = 1
            /\ commitLog'[req[c].id] = <<0>>

\* C36 as stated: on a stored document without a version field, a request
\* with lastKnownVersion = 0 passes the conflict check, a request with any
\* other lastKnownVersion and forceUpdate = false ends in Conflict reporting
\* currentVersion = 0, and a committed mutation stores version 1.
C36_Original ==
    [][\A c \in Clients :
          /\ LegacyPassesAtZero(c)
          /\ (Finishes(c) /\ OnLegacy(req'[c]) /\ CarriesOtherVersion(req'[c])) =>
                ReportsConflictAtZero(req'[c]) /\ store' = store]_vars

\* C36 (amended): the same, unless the request is turned away before the
\* conflict check: a full update whose key another parameter holds ends in
\* DuplicateKey, a delete-country-override whose override-existence test
\* fails ends in ValidationError.
C36_LegacyIsVersionZero ==
    [][\A c \in Clients :
          /\ LegacyPassesAtZero(c)
          /\ (Finishes(c) /\ OnLegacy(req'[c]) /\ CarriesOtherVersion(req'[c])) =>
                /\ store' = store
                /\ IF RejectedEarly(req'[c])
                   THEN req'[c].resp.status = EarlyStatus(req'[c])
                   ELSE ReportsConflictAtZero(req'[c])]_vars

\* the legacy document p2 was mutated by a request carrying lastKnownVersion
\* 0 and now has version 1
C36_Witness ==
    /\ ~Has(LegacyDocs["p2"], "version")
    /\ "p2" \in DOMAIN store
    /\ Has(store["p2"], "version")
    /\ store["p2"].version = 1
    /\ commitLog["p2"] = <<0>>
    /\ req["u1"].pc = "done"
    /\ req["u1"].id = "p2"
    /\ req["u1"].resp.status = "ok"
    /\ HasLkv(req["u1"].body)
    /\ req["u1"].body.lastKnownVersion = 0
    /\ ~req["u1"].body.forceUpdate

-----------------------------------------------------------------------------
(* C38 *)

\* the store query of reader m's read fails in this step
QueryFailed(m) ==
    /\ reads[m].pc = "fetch"
    /\ reads'[m] # reads[m]
    /\ \/ reads'[m].pc = "fetch"
       \/ reads'[m].pc = "done" /\ reads'[m].resp.status = 500

\* C38: when the store query of a get-or-compute call fails, the error goes
\* to the caller at once, the read is answered 500, the query is not run a
\* second time and nothing is written to the cache: no read is answered with
\* a configuration computed in getOrSet's catch block.
C38_ComputeRunsOnce ==
    [][\A m \in ConcurrentReaders :
          /\ QueryFailed(m) =>
                /\ reads'[m].pc = "done"
                /\ reads'[m].resp.status = 500
                /\ cache' = cache
          /\ (QueriesStore(m) /\ reads'[m].pc = "done" /\ reads'[m].resp.status = 200) =>
                ~reads[m].direct]_vars

-----------------------------------------------------------------------------
(* C39 *)

\* reader r holds an answer for the country that is the snapshot of the
\* stored parameters: it reflects every committed mutation
HoldsCurrent(r, country) ==
    /\ reads[r].pc = "done"
    /\ reads[r].country = country
    /\ reads[r].resp.status = 200
    /\ reads[r].resp.body = ExpectedSnapshot(country)

\* C39: reads for one country are monotonic: while a reader holds an answer
\* that reflects every committed mutation, a read that another reader issues
\* for the same country and that is answered in the same step (from the
\* cache) returns that snapshot too, not an earlier one.
C39_MonotonicReads ==
    [][\A r \in ConcurrentReaders : \A m \in ConcurrentReaders \ {r} :
          (HoldsCurrent(r, reads'[m].country) /\ AsksCache(m) /\ Answers(m)
             /\ store' = store) =>
                reads'[m].resp.body = reads[r].resp.body]_vars

====
